---- MODULE Spec2Model ----
(***************************************************************************)
(* Silhouette measurement engine of YeadonModelGenerator:                  *)
(*   src/src/utils/get_maximum.py  (free functions)                        *)
(*   src/src/im2meas.py            (YeadonModel methods)                   *)
(*                                                                         *)
(* Number representation.  The code works on floats; the model uses exact  *)
(* fixed point:                                                            *)
(*   - a coordinate is an integer count of 1/CoordDen pixel; landmarks are *)
(*     taken at pixel centres (r + 0.5), and CoordDen = 2 * 99 makes the   *)
(*     100 samples of np.linspace between two centres exact;               *)
(*   - an angle is a count of eighths of a turn, each worth EighthTurn,    *)
(*     plus a count of 1/AngleUnit radian, plus eight more decimals:       *)
(*     12 decimals of a radian in all;                                     *)
(*   - np.sin / np.cos return 12 decimals, +-1 only where the float is     *)
(*     +-1.0;                                                              *)
(*   - the marching distance is the binary64 sum of its additions of 0.01, *)
(*     held exactly; where the point of a ray falls on a pixel border in   *)
(*     fixed point, the float sum decides the side;                        *)
(*   - a float norm sqrt(n) of integer vectors is represented by n.        *)
(***************************************************************************)
EXTENDS Integers, Sequences, FiniteSets, TLC

\* ---------------------------------------------------------------- bounds
\* raster shape and number of boundary pixels: find_edge run pass by pass
RayRows == 2
RayCols == 2
RayBoundary == 2
\* raster shape and number of boundary pixels: the calls of the operations
Rows == 2
Cols == 3
MaxBoundary == 2

\* ------------------------------------------------------- number formats
CoordDen == 198
Unit == 10000
AngleUnit == 10000
StepsPerPixel == 100
Million == StepsPerPixel * Unit
PosDen == CoordDen * Million

\* pi in 1/AngleUnit, where the code multiplies by it
Pi == 31416

\* An angle is <<g, f>>.  g = e * EighthTurn + r stands for e * (np.pi / 4)
\* + r / AngleUnit radians, with r between -EighthTurn / 2 and EighthTurn / 2:
\* the code adds np.pi / 2 to angles and steps them by 0.01, and np.pi / 2 is
\* no multiple of 1 / AngleUnit.  f, from 0 to Fine - 1, adds f / (AngleUnit
\* * Fine) radians: the eight decimals after the four of r.
EighthTurn == 1000000
Fine == Unit * Unit

\* the angle of g with no further decimals
Grid(g) == <<g, 0>>

QuarterPi == Grid(EighthTurn)
HalfPi == Grid(2 * EighthTurn)

\* a + b, -a, a - b and a * sign for angles a, b and sign 1 or -1
Plus(a, b) == <<a[1] + b[1] + (a[2] + b[2]) \div Fine, (a[2] + b[2]) % Fine>>
Opposed(a) == IF a[2] = 0 THEN <<-a[1], 0>> ELSE <<-a[1] - 1, Fine - a[2]>>
Minus(a, b) == Plus(a, Opposed(b))
Signed(a, sign) == IF sign < 0 THEN Opposed(a) ELSE a

\* int(): truncation toward zero of the rational a / b, b > 0
Trunc(a, b) == IF a >= 0 THEN a \div b ELSE -((-a) \div b)

\* ----------------------------------------------------- np.sin and np.cos
\* A sine or cosine v is held to 16 decimals as five digits of base Unit,
\* v = d[1] + d[2] / Unit + d[3] / Unit^2 + d[4] / Unit^3 + d[5] / Unit^4,
\* with d[1] in -1 .. 1 and the other digits in 0 .. Unit - 1; the points of
\* a ray are computed from the first 12 decimals.
One == <<1, 0, 0, 0, 0>>
Nought == <<0, 0, 0, 0, 0>>

\* the digits of a number given by coefficients of any size, v the lowest
RECURSIVE Carry(_, _)
Carry(p, v) ==
    IF p = << >> THEN << v >>
    ELSE Carry(SubSeq(p, 1, Len(p) - 1), p[Len(p)] + v \div Unit) \o << v % Unit >>

Digits(p) == Carry(SubSeq(p, 1, Len(p) - 1), p[Len(p)])

Sum(a, b) == Digits([i \in 1 .. 5 |-> a[i] + b[i]])
Difference(a, b) == Digits([i \in 1 .. 5 |-> a[i] - b[i]])
Negated(a) == Digits([i \in 1 .. Len(a) |-> -a[i]])

\* a * b, cut after the 16th decimal
Product(a, b) ==
    SubSeq(Digits(<<a[1] * b[1],
                    a[1] * b[2] + a[2] * b[1],
                    a[1] * b[3] + a[2] * b[2] + a[3] * b[1],
                    a[1] * b[4] + a[2] * b[3] + a[3] * b[2] + a[4] * b[1],
                    a[1] * b[5] + a[2] * b[4] + a[3] * b[3] + a[4] * b[2] + a[5] * b[1],
                    a[2] * b[5] + a[3] * b[4] + a[4] * b[3] + a[5] * b[2],
                    a[3] * b[5] + a[4] * b[4] + a[5] * b[3],
                    a[4] * b[5] + a[5] * b[4],
                    a[5] * b[5]>>), 1, 5)

\* cos p cos q - sin p sin q and sin p cos q + cos p sin q, from the products
\* m = <<cos p cos q, cos p sin q, sin p cos q, sin p sin q>>
Combined(m) == <<Difference(m[1], m[4]), Sum(m[3], m[2])>>

\* a direction is <<cosine, sine>>; the direction of the sum of two angles
\* (the products with the direction <<One, Nought>> of 0 are exact)
Rotated(p, q) ==
    IF q = <<One, Nought>> THEN p
    ELSE IF p = <<One, Nought>> THEN q
    ELSE Combined([k \in 1 .. 4 |-> Product(p[(k + 1) \div 2], q[2 - (k % 2)])])

\* the directions of the angles 0.01 and 0.0001
Hundredth1 == << <<0, 9999, 5000, 416, 6653>>, <<0, 99, 9983, 3334, 1667>> >>
TenThousandth1 == << <<0, 9999, 9999, 5000, 0>>, <<0, 0, 9999, 9999, 8333>> >>

\* the directions of n steps of an angle from the direction p on
RECURSIVE Turns(_, _, _)
Turns(p, step, n) ==
    IF n = 1 THEN << Rotated(p, step) >>
    ELSE LET head == Turns(p, step, n \div 2)
         IN  head \o Turns(head[Len(head)], step, n - n \div 2)

\* the directions of 0, 0.01 .. 6.28 and of 0, 0.0001 .. 0.0099
AngleStep == AngleUnit \div 100
FullTurn == (2 * Pi) \div AngleStep
Hundredths == << <<One, Nought>> >> \o Turns(<<One, Nought>>, Hundredth1, FullTurn)
TenThousandths == << <<One, Nought>> >> \o Turns(<<One, Nought>>, TenThousandth1, AngleStep - 1)

\* the direction of r / AngleUnit radians, r >= 0
RECURSIVE Decimal(_)
Decimal(r) ==
    Rotated(Hundredths[(IF r > FullTurn * AngleStep THEN FullTurn ELSE r \div AngleStep) + 1],
            IF r > FullTurn * AngleStep THEN Decimal(r - FullTurn * AngleStep)
            ELSE TenThousandths[(r % AngleStep) + 1])

\* the direction of np.pi / 4, and a direction turned by e times np.pi / 4
Eighth == << <<0, 7071, 678, 1186, 5475>>, <<0, 7071, 678, 1186, 5475>> >>

Turned(p, e) ==
    IF e = 0 THEN p
    ELSE IF e = 2 THEN <<Negated(p[2]), p[1]>>
    ELSE IF e = 4 THEN <<Negated(p[1]), Negated(p[2])>>
    ELSE <<p[2], Negated(p[1])>>

EighthsOf(g) == (g + EighthTurn \div 2) \div EighthTurn
RestOf(g) == g - EighthsOf(g) * EighthTurn

\* the direction of -p's angle when back, p otherwise
Mirrored(p, back) == IF back THEN <<p[1], Negated(p[2])>> ELSE p

\* the direction of r / AngleUnit radians, with that of an odd eighth added
Within(r, odd) ==
    Rotated(Mirrored(Decimal(IF r < 0 THEN -r ELSE r), r < 0),
            IF odd THEN Eighth ELSE <<One, Nought>>)

\* p / k for a value p >= 0 and a whole number k > 0, rem being what the
\* digits before p have left
RECURSIVE Over(_, _, _)
Over(p, k, rem) ==
    IF p = << >> THEN << >>
    ELSE << (rem * Unit + Head(p)) \div k >> \o Over(Tail(p), k, (rem * Unit + Head(p)) % k)

\* the direction of an angle t below 1 / AngleUnit, t2 its square: the
\* cosine is 1 - t^2 / 2 and the sine t - t^3 / 6 to 16 decimals
SmallFrom(t, t2) == <<Difference(One, Over(t2, 2, 0)), Difference(t, Over(Product(t2, t), 6, 0))>>
SmallOf(t) == SmallFrom(t, Product(t, t))
Small(f) == IF f = 0 THEN <<One, Nought>> ELSE SmallOf(<<0, 0, f \div Unit, f % Unit, 0>>)

\* the direction p turned by the further decimals f of an angle
Further(p, f) == Rotated(p, Small(f))

\* the direction of e eighths of a turn, r / AngleUnit radians and the
\* further decimals f: the quarter turns come last, and are exact
Plain(e, r, f) == Turned(Further(Within(r, e % 2 = 1), f), (e - (e % 2)) % 8)

\* the directions of the multiples of np.pi / 4, computed once
Eighths == [e \in 0 .. 7 |-> Plain(e, 0, 0)]

DirectionOf(e, r, f) == IF r = 0 /\ f = 0 THEN Eighths[e % 8] ELSE Plain(e, r, f)

\* the direction <<np.cos(angle), np.sin(angle)>>
Direction(angle) == DirectionOf(EighthsOf(angle[1]), RestOf(angle[1]), angle[2])

\* np.cos(angle), np.sin(angle)
Cos(angle) == Direction(angle)[1]
Sin(angle) == Direction(angle)[2]

\* a sine or cosine to 4 decimals, as a count of 1 / Unit
Scaled(v) == v[1] * Unit + v[2] + (IF v[3] >= Unit \div 2 THEN 1 ELSE 0)

\* -------------------------------------------------------------- rasters
\* an edge raster: its shape (rows, columns) and its pixels, 255 on the
\* boundary and 0 elsewhere
PixelsOf(shape) == (0 .. shape[1] - 1) \X (0 .. shape[2] - 1)

RastersOf(shape, n) ==
    { [shape |-> shape,
       px    |-> [p \in PixelsOf(shape) |-> IF p \in S THEN 255 ELSE 0]] :
        S \in { T \in SUBSET PixelsOf(shape) : Cardinality(T) <= n } }

Boundary(edges) == { p \in PixelsOf(edges.shape) : edges.px[p] = 255 }

\* a landmark coordinate at the centre of pixel index i
Centre(i) == (2 * i + 1) * (CoordDen \div 2)

\* -------------------------------------------------------------- binary64
\* A float v with 0 <= v < 32 that is a multiple of 2^-59, as every binary64
\* value from 2^-7 up is, is held as <<a, b, c>> with
\* v * 2^59 = a * 2^48 + b * 2^24 + c and 0 <= b, c < 2^24.
Limb == 16777216

Normal(a, b, c) ==
    LET b1 == b + c \div Limb
    IN  <<a + b1 \div Limb, b1 % Limb, c % Limb>>

RECURSIVE BitLength(_)
BitLength(a) == IF a = 0 THEN 0 ELSE 1 + BitLength(a \div 2)

\* rounding to 53 significant bits, to nearest and to even on a tie
Round(v) ==
    LET k    == BitLength(v[1]) - 5
        ulp  == 2 ^ k
        r    == v[3] % ulp
        down == v[3] - r
        up   == 2 * r > ulp \/ (2 * r = ulp /\ (down \div ulp) % 2 = 1)
    IN  IF k <= 0 THEN v
        ELSE Normal(v[1], v[2], IF up THEN down + ulp ELSE down)

\* v + w
FloatAdd(v, w) == Round(Normal(v[1] + w[1], v[2] + w[2], v[3] + w[3]))

FloatLess(v, w) ==
    \/ v[1] < w[1]
    \/ v[1] = w[1] /\ v[2] < w[2]
    \/ v[1] = w[1] /\ v[2] = w[2] /\ v[3] < w[3]

\* the floats 0.0 and 0.01 = 5764607523034235 * 2^-59
Zero == <<0, 0, 0>>
Hundredth == <<20, 8053063, 11408507>>

\* the n values a distance takes after the value v: v + 0.01, v + 0.01 + 0.01 ..
RECURSIVE Sums(_, _)
Sums(v, n) ==
    IF n = 1 THEN << FloatAdd(v, Hundredth) >>
    ELSE LET head == Sums(v, n \div 2)
         IN  head \o Sums(head[Len(head)], n - n \div 2)

\* the distances of find_edge after 0, 1 .. FloatSteps passes
FloatSteps == 1100
Distances == << Zero >> \o Sums(Zero, FloatSteps)

\* ------------------------------------------------------------ ray caster
\* the smallest power of two that is at least w
RECURSIVE PowerOfTwo(_)
PowerOfTwo(w) == IF w <= 1 THEN 1 ELSE 2 * PowerOfTwo((w + 1) \div 2)

\* distance - n / 100 in units of 2^-59, for n a multiple of 50; what is
\* beyond a limb counts as one limb
Drift(distance, n) ==
    LET high == (distance[1] - (n \div 50) * 1024) * Limb + distance[2]
    IN  IF high > 0 THEN Limb
        ELSE IF high < -1 THEN -Limb
        ELSE high * Limb + distance[3]

\* int() of the float sum whose exact value is the whole number w, drift
\* being what the rounding of distance adds to the sum, in units of 2^-59:
\* the sum is w unless drift weighs toward zero by more than half the gap
\* between w and the float next to it, which is 2^-54 for w = 1 and doubles
\* with the power of two that w reaches; int() then gives the whole number
\* before w
IntOfSum(w, drift) ==
    IF w > 0 /\ -drift > 32 * PowerOfTwo(w) THEN w - 1
    ELSE IF w < 0 /\ drift > 32 * PowerOfTwo(-w) THEN w + 1
    ELSE w

\* int() of the sum whose whole part is w and whose fraction is
\* num / PosDen + rest / 10^14, rest < 10^8: the fraction reaches 1 when num
\* reaches PosDen less the whole part of rest * PosDen / 10^14.  A sum that
\* is a whole number is on a pixel border: with c = 1.0 or -1.0 the float
\* sum decides, by the rounding of the distance.  A sum below zero that is
\* no whole number is cut toward zero.
Settled(w, exact, c, n, distance) ==
    IF exact
    THEN IF c[2] = 0 /\ c[3] = 0 /\ c[4] = 0 /\ c[1] # 0
         THEN IntOfSum(w, c[1] * Drift(distance, n))
         ELSE w
    ELSE IF w < 0 THEN w + 1 ELSE w

Cut(w, num, rest, c, n, distance) ==
    Settled(IF num >= PosDen - ((rest \div Unit) * CoordDen + ((rest % Unit) * CoordDen) \div Unit) \div Unit
            THEN w + 1 ELSE w,
            rest = 0 /\ num % PosDen = 0 /\ c[5] * n = 0, c, n, distance)

\* n * c / 100 as millionths and a rest in 1 / 10^14
Millionths(c, n) ==
    n * c[1] * Unit + n * c[2] + (n * c[3] + (n * c[4]) \div Unit) \div Unit

RestOfMillionths(c, n) ==
    ((n * c[3] + (n * c[4]) \div Unit) % Unit) * Unit + ((n * c[4]) % Unit)

Whole(o, m, rest, c, n, distance) ==
    Cut(o \div CoordDen + m \div Million,
        (o % CoordDen) * Million + CoordDen * (m % Million),
        rest, c, n, distance)

\* the sum with c cut after 4 decimals is less than Slack * n / PosDen from
\* the sum
Slack == 2 * CoordDen

\* int(o + c * distance), o a coordinate of the origin in 1 / CoordDen
\* pixel, c a sine or cosine, of which 12 decimals count.  The distance is n hundredths
\* to within its rounding, which counts only when the sum is a whole number.
\* The origins of the rays are pixel centres, the samples between two of
\* them and the landmarks of the photographs, never whole numbers, so that a
\* coordinate with c = 0 is never on a pixel border.  v / PosDen is the sum with c cut after 4 decimals: the two
\* have the same whole part when v is further than Slack * n from the
\* multiples of PosDen.
Coordinate(o, c, n, distance, v) ==
    IF v % PosDen > Slack * n /\ v % PosDen < PosDen - Slack * n
    THEN Trunc(v, PosDen)
    ELSE Whole(o, Millionths(c, n), RestOfMillionths(c, n), c, n, distance)

\* pt_from: returns [int(y), int(x)] with y = origin[0] + cos * distance,
\* x = origin[1] + sin * distance (tuples are 1-based here); c and s are the
\* values np.cos(angle) and np.sin(angle)
Point(origin, c, s, n, distance) ==
    <<Coordinate(origin[1], c, n, distance,
                 origin[1] * Million + CoordDen * (c[1] * Unit + c[2]) * n),
      Coordinate(origin[2], s, n, distance,
                 origin[2] * Million + CoordDen * (s[1] * Unit + s[2]) * n)>>

PointAlong(origin, d, n, distance) == Point(origin, d[1], d[2], n, distance)

\* n is the number of hundredths nearest to the float distance
pt_from(origin, angle, distance) ==
    LET n == (distance[1] * StepsPerPixel
              + (distance[2] * StepsPerPixel) \div Limb + 1024) \div 2048
    IN  PointAlong(origin, Direction(angle), n, distance)

\* the point find_edge tests at the pass after n additions of 0.01
PtAt(origin, c, s, n) == Point(origin, c, s, n, Distances[n + 1])

\* x < 0 or x >= edges.shape[0] or y < 0 or y >= edges.shape[1]
OutOfBounds(edges, x, y) ==
    x < 0 \/ x >= edges.shape[1] \/ y < 0 \/ y >= edges.shape[2]

\* np.any(edges[x, y] == 255)
HitZoneInverted(edges, x, y) == edges.px[<<x, y>>] # 255
HitZone(edges, x, y) == edges.px[<<x, y>>] = 255

\* distance += 0.01
NextDistanceStuck(distance) == distance
NextDistance(distance) == FloatAdd(distance, Hundredth)

\* The while loop of find_edge as a function of its inputs.  The loop leaves
\* at the first distance 0, 1, 2, ... at which the point is out of bounds or
\* on a boundary pixel.  Both coordinates of the point are monotone in the
\* distance: the passes made while the point stays in the pixel of distance d
\* find what the pass at d found, and the next pass that can leave is the
\* first one whose point is another pixel.  One of |cos|, |sin| is at least
\* 0.7071 and int() holds a coordinate for at most 2 pixel lengths (around
\* 0), so that pass comes within MaxRun steps.
MaxRun == 3 * StepsPerPixel

Min2(a, b) == IF a <= b THEN a ELSE b

\* about the pass at which a coordinate that is w leaves w, by the sum with
\* c cut after 4 decimals: the pass at which that sum comes to the border
\* of w on the side c points to
Toward(o, w, g) ==
    IF g > 0 THEN ((IF w >= 0 THEN w + 1 ELSE w) * PosDen - o * Million) \div g
    ELSE IF g < 0 THEN (o * Million - (IF w > 0 THEN w ELSE w - 1) * PosDen) \div (-g)
    ELSE FloatSteps

Leaving(o, c, w) == Toward(o, w, CoordDen * (c[1] * Unit + c[2]))

\* a pass between lo and hi to look at: two passes before near, two passes
\* after it, or half way
Probe(lo, hi, near) ==
    IF lo < near - 2 /\ near - 2 < hi THEN near - 2
    ELSE IF lo < near + 2 /\ near + 2 < hi THEN near + 2
    ELSE (lo + hi) \div 2

\* the first distance in lo + 1 .. hi whose point is not pt, for lo < hi,
\* PtAt(.., lo) = pt and PtAt(.., hi) # pt; near is where to look first
RECURSIVE FirstOther(_, _, _, _, _, _, _)
FirstOther(p1, c, s, pt, lo, hi, near) ==
    IF hi = lo + 1 THEN hi
    ELSE IF PtAt(p1, c, s, Probe(lo, hi, near)) = pt
         THEN FirstOther(p1, c, s, pt, Probe(lo, hi, near), hi, near)
         ELSE FirstOther(p1, c, s, pt, lo, Probe(lo, hi, near), near)

RECURSIVE March(_, _, _, _, _)
March(p1, c, s, edges, distance) ==
    LET pt == PtAt(p1, c, s, distance)
        x  == pt[1]
        y  == pt[2]
    IN  IF OutOfBounds(edges, x, y) THEN << >>
        ELSE IF HitZone(edges, x, y) THEN << <<y, x>> >>
        ELSE March(p1, c, s, edges,
                   FirstOther(p1, c, s, pt, distance, distance + MaxRun,
                              Min2(Leaving(p1[1], c, x), Leaving(p1[2], s, y))))

Ray(p1, d, edges) == March(p1, d[1], d[2], edges, 0)

find_edge(p1, p2, angle_radians, edges) == Ray(p1, Direction(angle_radians), edges)

\* -------------------------------------------------------- numpy helpers
Abs(n) == IF n < 0 THEN -n ELSE n

\* the direction d is not above the vector <<x, y>>, x, y > 0: the tangent
\* of its angle is at most y / x, that is y * cos - x * sin >= 0, on all the
\* decimals of the cosine and the sine
NotAbove(d, y, x) == Digits([i \in 1 .. 5 |-> y * d[1][i] - x * d[2][i]])[1] >= 0

\* the largest n of lo .. hi whose angle is not above <<x, y>>: the angle of
\* n is <<n, 0>>, or <<g, n>> when fine
RECURSIVE AtanSearch(_, _, _, _, _, _)
AtanSearch(y, x, g, fine, lo, hi) ==
    IF lo >= hi THEN lo
    ELSE LET mid == (lo + hi + 1) \div 2
         IN  IF NotAbove(Direction(IF fine THEN <<g, mid>> ELSE <<mid, 0>>), y, x)
             THEN AtanSearch(y, x, g, fine, mid, hi)
             ELSE AtanSearch(y, x, g, fine, lo, mid - 1)

\* the angle of <<x, y>>, x, y > 0, cut after its 12th decimal: first the
\* four decimals g, then the eight after them
ArctangentFrom(y, x, g) == <<g, AtanSearch(y, x, g, TRUE, 0, Fine - 1)>>
ArctangentOf(y, x) == ArctangentFrom(y, x, AtanSearch(y, x, 0, FALSE, 0, Pi \div 2))

\* the angles of the vectors of whole pixels, computed once: <<y, x>> times
\* a length has the angle of <<y, x>>
MaxSpan == 2 * (Rows + Cols)
Arctangents == [y \in 1 .. MaxSpan |-> [x \in 1 .. MaxSpan |-> ArctangentOf(y, x)]]

Arctangent(y, x) ==
    IF /\ y % CoordDen = 0 /\ y <= MaxSpan * CoordDen
       /\ x % CoordDen = 0 /\ x <= MaxSpan * CoordDen
    THEN Arctangents[y \div CoordDen][x \div CoordDen]
    ELSE ArctangentOf(y, x)

\* np.arctan2(y, x): 0, +-np.pi / 2 and np.pi on the axes, +-np.pi / 4 and
\* +-3 * np.pi / 4 on the diagonals, and the angle q of <<|x|, |y|>> put in
\* the quadrant of <<x, y>> elsewhere
arctan2(y, x) ==
    IF y = 0 THEN (IF x >= 0 THEN Grid(0) ELSE Plus(HalfPi, HalfPi))
    ELSE IF x = 0 THEN Signed(HalfPi, y)
    ELSE LET q == IF Abs(x) = Abs(y) THEN QuarterPi
                  ELSE Arctangent(Abs(y), Abs(x))
         IN  Signed(IF x > 0 THEN q ELSE Minus(Plus(HalfPi, HalfPi), q), y)

\* outcomes of a call: a returned float sqrt(sq), a returned point, None,
\* or a raised exception
Value(sq) == [kind |-> "value", sq |-> sq]
Raise(exc) == [kind |-> "raise", exc |-> exc]

\* np.linalg.norm(np.array(a) - np.array(b)) for two lists of at most one
\* (y, x) tuple: shapes (0,) and (1, 2) do not broadcast; (0,) - (0,) is
\* empty and its norm is 0.0
NormOfDifference(a, b) ==
    IF Len(a) = 0 /\ Len(b) = 0 THEN Value(0)
    ELSE IF Len(a) = 0 \/ Len(b) = 0 THEN Raise("ValueError")
    ELSE Value((a[1][1] - b[1][1]) * (a[1][1] - b[1][1])
             + (a[1][2] - b[1][2]) * (a[1][2] - b[1][2]))

\* ------------------------------------------------------- width finders
get_points(start, end) == << <<start[2], start[1]>>, <<end[2], end[1]>> >>

\* the two find_edge calls of _get_maximum and its return value; o1, o2 are
\* the origins and a1, a2 the angles handed to find_edge
GetMaximumAnchoredAtEnd(start, end, edges, angle, is_start) ==
    LET pts    == get_points(start, end)
        p1     == pts[1]
        p2     == pts[2]
        vector == <<p2[1] - p1[1], p2[2] - p1[2]>>
        a1     == Minus(arctan2(vector[2], vector[1]), angle)
        max1   == find_edge(p1, p2, a1, edges)
        a2     == Signed(Plus(arctan2(vector[2], vector[1]), angle), is_start)
        max2   == find_edge(p2, p1, a2, edges)
    IN  [o1 |-> p1, a1 |-> a1, max1 |-> max1,
         o2 |-> p2, a2 |-> a2, max2 |-> max2,
         ret |-> NormOfDifference(max1, max2)]

_get_maximum(start, end, edges, angle, is_start) ==
    LET pts    == get_points(start, end)
        p1     == pts[1]
        p2     == pts[2]
        vector == <<p2[1] - p1[1], p2[2] - p1[2]>>
        a1     == Minus(arctan2(vector[2], vector[1]), angle)
        max1   == find_edge(p1, p2, a1, edges)
        a2     == Signed(Plus(arctan2(vector[2], vector[1]), angle), is_start)
        max2   == find_edge(p1, p2, a2, edges)
    IN  [o1 |-> p1, a1 |-> a1, max1 |-> max1,
         o2 |-> p1, a2 |-> a2, max2 |-> max2,
         ret |-> NormOfDifference(max1, max2)]

get_maximum_line(start, end, edges) == _get_maximum(start, end, edges, Grid(0), -1)

get_maximum_start(start, end, edges) == _get_maximum(start, end, edges, HalfPi, 1)

\* ------------------------------------------------------ get_maximum_point
\* np.linspace(..., 100): the number of samples on the segment
Samples == 100

\* sample i, 0 <= i < Samples, of np.linspace(a, b, Samples); between pixel
\* centres b - a is a multiple of Samples - 1 and the division is exact
linspace(a, b, i) == a + (i * (b - a)) \div (Samples - 1)

\* the list result of get_maximum_point: the samples, as (row, col)
SamplePoints(p1, p2) ==
    [ i \in 1 .. Samples |->
        <<linspace(p1[1], p2[1], i - 1), linspace(p1[2], p2[2], i - 1)>> ]

vector_angle_plus(p1, p2) ==
    LET vector == <<p2[1] - p1[1], p2[2] - p1[2]>>
    IN  Plus(arctan2(vector[2], vector[1]), HalfPi)

vector_angle_minus(p1, p2) ==
    LET vector == <<p2[1] - p1[1], p2[2] - p1[2]>>
    IN  Minus(arctan2(vector[2], vector[1]), HalfPi)

\* the loop of get_maximum_range over samples i .. j, by halves: a ray that
\* hits appends its point to save, a ray that leaves the raster appends
\* nothing
RECURSIVE RangeFrom(_, _, _, _, _, _)
RangeFrom(result, i, j, c, s, edges) ==
    IF i > j THEN << >>
    ELSE IF i = j THEN March(result[i], c, s, edges, 0)
    ELSE LET mid == (i + j) \div 2
         IN  RangeFrom(result, i, mid, c, s, edges)
                \o RangeFrom(result, mid + 1, j, c, s, edges)

Range(result, d, edges) == RangeFrom(result, 1, Len(result), d[1], d[2], edges)

get_maximum_range(angle_radians, result, edges) ==
    Range(result, Direction(angle_radians), edges)

\* the value None of a function that returns without a value
None == [kind |-> "none"]
Index(i) == [kind |-> "index", index |-> i]

\* np.linalg.norm(np.array(top_arr) - np.array(bottom_arr), axis=1), squared
Norms(top_arr, bottom_arr) ==
    [ i \in 1 .. Len(top_arr) |->
        (top_arr[i][1] - bottom_arr[i][1]) * (top_arr[i][1] - bottom_arr[i][1])
      + (top_arr[i][2] - bottom_arr[i][2]) * (top_arr[i][2] - bottom_arr[i][2]) ]

\* the significant bits of a limb value
Bits(v) == IF v[1] > 0 THEN 2 * 24 + BitLength(v[1])
           ELSE IF v[2] > 0 THEN 24 + BitLength(v[2]) ELSE BitLength(v[3])

\* m * v + d on limbs
Times(v, m, d) == Normal(m * v[1], m * v[2], m * v[3] + d)

\* the square root by digits: the pairs of bits of n from pair p down to
\* pair 1, then zero pairs until the root has 54 bits; the root and what is
\* left of n
RECURSIVE RootLoop(_, _, _, _)
RootLoop(n, p, rem, root) ==
    IF p = 0 /\ Bits(root) >= 54 THEN <<root, rem>>
    ELSE LET pair  == IF p > 0 THEN (n \div 4 ^ (p - 1)) % 4 ELSE 0
             r4    == Times(rem, 4, pair)
             trial == Times(root, 4, 1)
             less  == IF p > 0 THEN p - 1 ELSE 0
         IN  IF FloatLess(r4, trial)
             THEN RootLoop(n, less, r4, Times(root, 2, 0))
             ELSE RootLoop(n, less,
                           Normal(r4[1] - trial[1], r4[2] - trial[2], r4[3] - trial[3]),
                           Times(root, 2, 1))

\* a binary64 value m * 2^e: v of 53 to 55 bits rounded to 53 bits, to the
\* nearest and to even on a tie; sticky says that v was cut short
RoundTo53(v, e, sticky) ==
    LET ulp  == 2 ^ (Bits(v) - 53)
        r    == v[3] % ulp
        down == v[3] - r
        up   == \/ 2 * r > ulp
                \/ 2 * r = ulp /\ (sticky \/ (down \div ulp) % 2 = 1)
    IN  [m |-> IF ulp = 1 THEN v
               ELSE Normal(v[1], v[2], IF up THEN down + ulp ELSE down),
         e |-> e]

\* an element of np.linalg.norm(...): the binary64 square root of the whole
\* number sq > 0
Sqrt(sq) ==
    LET pairs == (BitLength(sq) + 1) \div 2
        found == RootLoop(sq, pairs, Zero, Zero)
    IN  RoundTo53(found[1], pairs - 54, found[2] # Zero)

\* norms[i] > norms[0] * 1.5 on the squares sq_i and sq_0: where the two
\* sides differ as real numbers the squares decide, and where they are equal
\* as real numbers the roundings of the square roots and of the product do
Exceeds(sq_i, sq_0) ==
    IF 4 * sq_i # 9 * sq_0 THEN 4 * sq_i > 9 * sq_0
    ELSE IF sq_0 = 0 THEN FALSE
    ELSE LET x == Sqrt(sq_i)
             y == RoundTo53(Times(Sqrt(sq_0).m, 3, 0), Sqrt(sq_0).e - 1, FALSE)
             e == IF x.e < y.e THEN x.e ELSE y.e
         IN  FloatLess(Times(y.m, 2 ^ (y.e - e), 0), Times(x.m, 2 ^ (x.e - e), 0))

\* the loop of get_max_approx in utils/get_maximum.py, at index i (from 1),
\* on the squares of the norms
RECURSIVE ApproxLoop(_, _, _, _)
ApproxLoop(norms, i, max_norm, save_index) ==
    IF i > Len(norms) THEN save_index
    ELSE IF norms[i] > max_norm
         THEN IF Exceeds(norms[i], norms[1]) THEN save_index
              ELSE ApproxLoop(norms, i + 1, norms[i], i - 1)
         ELSE ApproxLoop(norms, i + 1, max_norm, save_index)

\* get_max_approx of utils/get_maximum.py; two empty lists give an array of
\* one dimension, which has no axis 1
get_max_approx(top_arr, bottom_arr) ==
    IF Len(top_arr) # Len(bottom_arr) THEN None
    ELSE IF Len(top_arr) = 0 THEN Raise("AxisError")
    ELSE LET norms == Norms(top_arr, bottom_arr)
         IN  Index(ApproxLoop(norms, 1, norms[1], 0))

\* the loop of the get_max_approx nested in YeadonModel._get_maximum_point
RECURSIVE NestedApproxLoop(_, _, _, _)
NestedApproxLoop(norms, i, max_norm, save_index) ==
    IF i > Len(norms) THEN save_index
    ELSE IF norms[i] > max_norm
         THEN NestedApproxLoop(norms, i + 1, norms[i], i - 1)
         ELSE NestedApproxLoop(norms, i + 1, max_norm, save_index)

nested_get_max_approx(top_arr, bottom_arr) ==
    IF Len(top_arr) # Len(bottom_arr) THEN None
    ELSE IF Len(top_arr) = 0 THEN Raise("AxisError")
    ELSE Index(NestedApproxLoop(Norms(top_arr, bottom_arr), 1, 0, 0))

\* return result[index][::-1]: the list index None is a TypeError
ResultAt(result, index) ==
    IF index.kind = "raise" THEN index
    ELSE IF index.kind = "none" THEN Raise("TypeError")
    ELSE [kind |-> "point", index |-> index.index,
          point |-> <<result[index.index + 1][2], result[index.index + 1][1]>>]

\* the two hit lists and the outcome of get_maximum_point
get_maximum_point(start, end, edges) ==
    LET pts    == get_points(start, end)
        result == SamplePoints(pts[1], pts[2])
        r_side == get_maximum_range(vector_angle_plus(pts[1], pts[2]), result, edges)
        l_side == get_maximum_range(vector_angle_minus(pts[1], pts[2]), result, edges)
    IN  [r_side |-> r_side, l_side |-> l_side,
         ret |-> ResultAt(result, get_max_approx(r_side, l_side))]

\* YeadonModel._get_maximum_point, with its nested get_max_approx
_get_maximum_point(start, end, edges) ==
    LET pts    == get_points(start, end)
        result == SamplePoints(pts[1], pts[2])
        r_side == get_maximum_range(vector_angle_plus(pts[1], pts[2]), result, edges)
        l_side == get_maximum_range(vector_angle_minus(pts[1], pts[2]), result, edges)
    IN  [r_side |-> r_side, l_side |-> l_side,
         ret |-> ResultAt(result, nested_get_max_approx(r_side, l_side))]

\* -------------------------------------------------------- get_maximum_pit
\* np.linalg.norm of a list of at most one point, squared; 0 for []
ListNorm(list) ==
    IF list = << >> THEN 0 ELSE list[1][1] * list[1][1] + list[1][2] * list[1][2]

\* the order of Python on lists of at most one tuple
ListLess(a, b) ==
    IF a = << >> THEN b # << >>
    ELSE IF b = << >> THEN FALSE
    ELSE \/ a[1][1] < b[1][1]
         \/ (a[1][1] = b[1][1] /\ a[1][2] < b[1][2])

\* max(a, b) of Python: the first of the largest
ListMax(a, b) == IF ListLess(a, b) THEN b ELSE a

\* int(np.sqrt(n))
Isqrt(n) == CHOOSE r \in 0 .. n : r * r <= n /\ n < (r + 1) * (r + 1)

\* lines 144-149 of get_maximum_pit: delta, whose subtraction fails between
\* an empty and a non-empty list, then point[0], which fails on []
PitReturnValue(last_left, last_right, save_left) ==
    IF (last_left = << >>) # (last_right = << >>) THEN Raise("ValueError")
    ELSE LET point == ListMax(save_left, last_right)
         IN  IF point = << >> THEN Raise("IndexError")
             ELSE [kind |-> "pit", point |-> point[1],
                   distance |-> Isqrt(ListNorm(point))]

\* ================================================================ state
VARIABLES
    edges,          \* the edge raster handed to the calls
    pc,             \* position in the running operation
    p1,             \* find_edge: origin (row, col)
    angle_radians,  \* find_edge: angle
    distance,       \* find_edge: distance, a binary64 value
    save,           \* find_edge: the list returned
    visited,        \* history: the in-bounds pixels tested, in order
    passes,         \* history: the number of passes through the loop
    start,          \* landmark (x, y)
    end,            \* landmark (x, y)
    log,            \* history: the calls made, with their outcomes
    angle_radians_left,   \* get_maximum_pit: angle of the first loop
    angle_radians_right,  \* get_maximum_pit: angle of the second loop
    max_save_right,       \* get_maximum_pit: hit kept by the first loop
    max_save_left,        \* get_maximum_pit: hit kept by the second loop
    max_last_right,       \* get_maximum_pit: last hit of the first loop
    max_last_left         \* get_maximum_pit: last hit of the second loop

rayVars == <<p1, angle_radians, distance, save, visited, passes>>
callVars == <<start, end, log>>
pitVars == <<angle_radians_left, angle_radians_right, max_save_right,
             max_save_left, max_last_right, max_last_left>>
vars == <<edges, pc, rayVars, callVars, pitVars>>

RayIdle ==
    /\ p1 = <<0, 0>>
    /\ angle_radians = Grid(0)
    /\ distance = Zero
    /\ save = << >>
    /\ visited = << >>
    /\ passes = 0

CallIdle ==
    /\ start = <<0, 0>>
    /\ end = <<0, 0>>
    /\ log = << >>

PitIdle ==
    /\ angle_radians_left = Grid(0)
    /\ angle_radians_right = Grid(0)
    /\ max_save_right = << >>
    /\ max_save_left = << >>
    /\ max_last_right = << >>
    /\ max_last_left = << >>

\* =================================================== find_edge, stepwise
\* origins: the centres of the pixels, of the pixels one index before the
\* raster (int() truncates -0.5 to 0) and one index after it (outside)
Origins == { <<Centre(i), Centre(j)>> : i \in -1 .. RayRows, j \in -1 .. RayCols }

\* angles: the multiples of pi/4, as np.arctan2 and the +-pi/2 offsets give
\* them, and angles a few steps of 0.01 rad away from 0, as get_maximum_pit
\* gives them
RayAngles == { Grid(k * EighthTurn) : k \in -3 .. 4 } \cup { Grid(100), Grid(-300) }

InitRay ==
    /\ edges \in RastersOf(<<RayRows, RayCols>>, RayBoundary)
    /\ p1 \in Origins
    /\ angle_radians \in RayAngles
    /\ pc = "march"
    /\ distance = Zero
    /\ save = << >>
    /\ visited = << >>
    /\ passes = 0
    /\ CallIdle
    /\ PitIdle

Pt == pt_from(p1, angle_radians, distance)

Visit(seq, pt) ==
    IF Len(seq) > 0 /\ seq[Len(seq)] = pt THEN seq ELSE Append(seq, pt)

\* if x < 0 or x >= edges.shape[0] or y < 0 or y >= edges.shape[1]: break
MarchBreak ==
    /\ pc = "march"
    /\ OutOfBounds(edges, Pt[1], Pt[2])
    /\ pc' = "done"
    /\ UNCHANGED <<edges, rayVars, callVars, pitVars>>

\* if np.any(hit_zone): save.append((y, x)); break
MarchHit ==
    /\ pc = "march"
    /\ ~OutOfBounds(edges, Pt[1], Pt[2])
    /\ HitZone(edges, Pt[1], Pt[2])
    /\ save' = Append(save, <<Pt[2], Pt[1]>>)
    /\ visited' = Visit(visited, Pt)
    /\ pc' = "done"
    /\ UNCHANGED <<edges, p1, angle_radians, distance, passes, callVars, pitVars>>

\* distance += 0.01
MarchStep ==
    /\ pc = "march"
    /\ ~OutOfBounds(edges, Pt[1], Pt[2])
    /\ ~HitZone(edges, Pt[1], Pt[2])
    /\ distance' = NextDistance(distance)
    /\ passes' = passes + 1
    /\ visited' = Visit(visited, Pt)
    /\ UNCHANGED <<edges, pc, p1, angle_radians, save, callVars, pitVars>>

NextRay == MarchBreak \/ MarchHit \/ MarchStep

SpecRay == InitRay /\ [][NextRay]_vars

\* the function find_edge agrees with the loop run pass by pass
TypeRay ==
    /\ pc \in {"march", "done"}
    /\ Len(save) <= 1
    /\ pc = "done" => save = find_edge(p1, p1, angle_radians, edges)

\* ------------------------------------------------------- claims, find_edge
Max2(a, b) == IF a >= b THEN a ELSE b

\* a number of passes no march in a raster of this shape exceeds: the larger
\* of |cos|, |sin| is above 2/3, and a coordinate stays in bounds over less
\* than max(rows, cols) + 1 pixel lengths
MarchLimit(shape) == (3 * StepsPerPixel * (Max2(shape[1], shape[2]) + 1)) \div 2

\* the pixel (row, col) of a returned list [(y, x)]
HitPixel(list) == <<list[1][2], list[1][1]>>

\* pixel b lies on the part of the ray from origin that is inside the raster
OnRay(raster, origin, angle, b) ==
    LET c == Cos(angle)
        s == Sin(angle)
        o == PtAt(origin, c, s, 0)
    IN  /\ ~OutOfBounds(raster, o[1], o[2])
        /\ \E k \in 0 .. MarchLimit(raster.shape) : PtAt(origin, c, s, k) = b

\* C1: when find_edge returns a point, the point is a boundary pixel of the
\* raster and the first one along the ray: no pixel tested at an earlier
\* pass is a boundary pixel; with a single boundary pixel in the raster,
\* lying on the ray, that pixel is returned.
C1_FirstBoundaryPixel ==
    pc = "done" =>
        /\ save # << >> =>
              /\ Len(save) = 1
              /\ HitPixel(save) \in Boundary(edges)
              /\ visited[Len(visited)] = HitPixel(save)
              /\ \A i \in 1 .. Len(visited) - 1 : visited[i] \notin Boundary(edges)
        /\ \A b \in Boundary(edges) :
              (Boundary(edges) = {b} /\ OnRay(edges, p1, angle_radians, b))
                  => save = << <<b[2], b[1]>> >>

\* the ray passed a pixel that is not on the boundary, returned a boundary
\* pixel, and the raster has another boundary pixel further along the ray
C1_Witness ==
    /\ pc = "done"
    /\ save # << >>
    /\ Len(visited) >= 2
    /\ \E b \in Boundary(edges) :
          /\ b # HitPixel(save)
          /\ OnRay(edges, p1, angle_radians, b)

\* C2: the march ends, within MarchLimit passes, and a march that tested no
\* boundary pixel before its point left [0, rows) x [0, cols) returns the
\* empty list: no point, and no exception (the loop has no other exit).
C2_TerminatesWithMiss ==
    /\ passes <= MarchLimit(edges.shape)
    /\ pc \in {"march", "done"}
    /\ (pc = "done" /\ \A i \in 1 .. Len(visited) : visited[i] \notin Boundary(edges))
          => save = << >>

\* a march that made passes inside a raster with boundary pixels, and missed
C2_Witness ==
    /\ pc = "done"
    /\ save = << >>
    /\ passes > StepsPerPixel
    /\ Boundary(edges) # {}

\* ====================================================== the width finders
\* landmarks (x, y) at the centres of the pixels of a raster of Rows x Cols
Landmarks == { <<Centre(j), Centre(i)>> : i \in 0 .. Rows - 1, j \in 0 .. Cols - 1 }

\* the point as far beyond b as b is from a
Beyond(a, b) == <<2 * b[1] - a[1], 2 * b[2] - a[2]>>

InitWidth ==
    /\ edges \in RastersOf(<<Rows, Cols>>, MaxBoundary)
    /\ start \in Landmarks
    /\ end \in Landmarks
    /\ log = << >>
    /\ pc = "call"
    /\ RayIdle
    /\ PitIdle

Logged(op, a, b, call) ==
    [op |-> op, start |-> a, end |-> b,
     o1 |-> call.o1, a1 |-> call.a1, max1 |-> call.max1,
     o2 |-> call.o2, a2 |-> call.a2, max2 |-> call.max2,
     ret |-> call.ret]

\* a caller measures a width across start and end ...
CallGetMaximumLine ==
    /\ pc = "call"
    /\ log' = Append(log, Logged("get_maximum_line", start, end,
                                 get_maximum_line(start, end, edges)))
    /\ pc' = "swap"
    /\ UNCHANGED <<edges, rayVars, pitVars, start, end>>

\* ... and again with the landmarks in the other order (Ls0p and Ls0w)
CallGetMaximumLineSwapped ==
    /\ pc = "swap"
    /\ log' = Append(log, Logged("get_maximum_line", end, start,
                                 get_maximum_line(end, start, edges)))
    /\ pc' = "done"
    /\ UNCHANGED <<edges, rayVars, pitVars, start, end>>

\* a caller measures a depth at start, perpendicular to start -> end ...
CallGetMaximumStart ==
    /\ pc = "call"
    /\ log' = Append(log, Logged("get_maximum_start", start, end,
                                 get_maximum_start(start, end, edges)))
    /\ pc' = "far"
    /\ UNCHANGED <<edges, rayVars, pitVars, start, end>>

\* ... and again with a second landmark further away in the same direction
CallGetMaximumStartFar ==
    /\ pc = "far"
    /\ log' = Append(log, Logged("get_maximum_start", start, Beyond(start, end),
                                 get_maximum_start(start, Beyond(start, end), edges)))
    /\ pc' = "done"
    /\ UNCHANGED <<edges, rayVars, pitVars, start, end>>

NextWidth ==
    \/ CallGetMaximumLine
    \/ CallGetMaximumLineSwapped
    \/ CallGetMaximumStart
    \/ CallGetMaximumStartFar

SpecWidth == InitWidth /\ [][NextWidth]_vars

TypeWidth ==
    /\ Len(log) <= 2
    /\ \A i \in 1 .. Len(log) : log[i].ret.kind \in {"value", "raise"}

\* ---------------------------------------------- claims, the width finders
\* the outcome the specification asks of a ray that misses
Miss == [kind |-> "miss"]

Calls(op) == { i \in 1 .. Len(log) : log[i].op = op }
WidthCalls == Calls("get_maximum_line") \cup Calls("get_maximum_start")

\* (row, col) of a landmark (x, y)
RowCol(pt) == <<pt[2], pt[1]>>

\* the direction of angle a to 4 decimals, scaled by Unit
Short(d) == <<Scaled(d[1]), Scaled(d[2])>>
Dir(a) == Short(Direction(a))
Opposite(a, b) == Direction(a) = Turned(Direction(b), 4)

\* C3: when exactly one of the two rays misses, the width finders return the
\* miss outcome and raise nothing.
C3_OneMissIsReturned ==
    \A i \in WidthCalls :
        ((log[i].max1 = << >>) # (log[i].max2 = << >>)) => log[i].ret = Miss

\* C4: when both rays miss, the width finders return the miss outcome, which
\* is not the number 0.
C4_BothMissIsNotZero ==
    \A i \in WidthCalls :
        (log[i].max1 = << >> /\ log[i].max2 = << >>)
            => (log[i].ret = Miss /\ log[i].ret # Value(0))

\* C5: for start # end, get_maximum_line casts one ray from start and one
\* from end, in opposite directions, and returns the distance between the
\* two hit points.
C5_LineRaysFromBothEnds ==
    \A i \in Calls("get_maximum_line") :
        log[i].start # log[i].end =>
            /\ log[i].o1 = RowCol(log[i].start)
            /\ log[i].o2 = RowCol(log[i].end)
            /\ Opposite(log[i].a1, log[i].a2)
            /\ (log[i].max1 # << >> /\ log[i].max2 # << >>)
                  => log[i].ret = NormOfDifference(log[i].max1, log[i].max2)

\* C6: get_maximum_line(start, end, raster) = get_maximum_line(end, start,
\* raster) whenever both calls return a width.
C6_LineSymmetric ==
    \A i, j \in Calls("get_maximum_line") :
        ( /\ log[i].start = log[j].end
          /\ log[i].end = log[j].start
          /\ log[i].ret.kind = "value"
          /\ log[j].ret.kind = "value" ) => log[i].ret = log[j].ret

\* the first boundary pixel of the ray, by the loop of find_edge read pass
\* by pass: the point of the first pass that leaves, when it is in bounds.
\* The first pass that leaves is looked for in the first pixel length of
\* the march, StepsPerPixel passes, that has one.
FirstLeaveAlong(raster, origin, c, s, short) ==
    LET \* pass k is more than a pixel outside the raster
        Far(k) == LET row == origin[1] + (CoordDen * short[1] * k) \div Million
                      col == origin[2] + (CoordDen * short[2] * k) \div Million
                  IN  \/ row < -2 * CoordDen \/ row > (raster.shape[1] + 1) * CoordDen
                      \/ col < -2 * CoordDen \/ col > (raster.shape[2] + 1) * CoordDen
        Leaves(k) == \/ Far(k)
                     \/ LET pt == PtAt(origin, c, s, k)
                        IN  \/ OutOfBounds(raster, pt[1], pt[2])
                            \/ pt \in Boundary(raster)
        Stretch(b) == b * StepsPerPixel .. (b + 1) * StepsPerPixel - 1
        Left(b) == \E k \in Stretch(b) : Leaves(k)
        b0 == CHOOSE b \in 0 .. MarchLimit(raster.shape) \div StepsPerPixel :
                  Left(b) /\ \A j \in 0 .. b - 1 : ~Left(j)
        K == { k \in Stretch(b0) : Leaves(k) }
        k0 == CHOOSE k \in K : \A j \in K : k <= j
    IN  PtAt(origin, c, s, k0)

FirstLeaveIn(raster, origin, d) == FirstLeaveAlong(raster, origin, d[1], d[2], Short(d))

FirstLeave(raster, origin, angle) == FirstLeaveIn(raster, origin, Direction(angle))

\* the cross and the dot product of the vector v with the direction d
CrossWith(v, d) == v[1] * d[2] - v[2] * d[1]
DotWith(v, d) == v[1] * d[1] + v[2] * d[2]

\* the same with the direction of angle a
Cross(v, a) == CrossWith(v, Dir(a))
Dot(v, a) == DotWith(v, Dir(a))

\* the dot product of the vector v with the direction d, on all the decimals
\* of d
DotOf(v, d) == Digits([i \in 1 .. 5 |-> v[1] * d[1][i] + v[2] * d[2][i]])

\* the value p is between -n / 10^12 and n / 10^12
AtMost(p, n) ==
    /\ Difference(Digits(<<0, 0, 0, n, 0>>), p)[1] >= 0
    /\ Sum(Digits(<<0, 0, 0, n, 0>>), p)[1] >= 0

\* the direction d is at 90 degrees from the vector v, to the 12 decimals
\* of an angle: (v . d) / (|v[1]| + |v[2]|) is within 2 / 10^12 of 0
RightAngle(v, d) == AtMost(DotOf(v, d), 2 * (Abs(v[1]) + Abs(v[2])))

\* C7: for start # end, get_maximum_start casts both rays from start, one
\* rotated by +90 degrees and one by -90 degrees from the direction start ->
\* end; when both hit it returns the Euclidean distance, not negative,
\* between the first boundary pixels of the two rays; end counts only by
\* that direction.
C7_StartPerpendicularWidth ==
    /\ \A i \in Calls("get_maximum_start") :
          log[i].start # log[i].end =>
              LET c == log[i]
                  o == RowCol(c.start)
                  v == <<RowCol(c.end)[1] - o[1], RowCol(c.end)[2] - o[2]>>
                  d1 == Direction(c.a1)
                  d2 == Direction(c.a2)
              IN  /\ c.o1 = o
                  /\ c.o2 = o
                  /\ d1 = Turned(d2, 4)
                  /\ RightAngle(v, d1)
                  /\ CrossWith(v, Short(d1)) < 0
                  /\ CrossWith(v, Short(d2)) > 0
                  /\ (c.max1 # << >> /\ c.max2 # << >>) =>
                        /\ HitPixel(c.max1) = FirstLeaveIn(edges, o, d1)
                        /\ HitPixel(c.max2) = FirstLeaveIn(edges, o, d2)
                        /\ c.ret.kind = "value"
                        /\ c.ret.sq >= 0
                        /\ c.ret.sq =
                             (c.max1[1][1] - c.max2[1][1]) * (c.max1[1][1] - c.max2[1][1])
                           + (c.max1[1][2] - c.max2[1][2]) * (c.max1[1][2] - c.max2[1][2])
    /\ \A i, j \in Calls("get_maximum_start") :
          ( /\ log[i].start = log[j].start
            /\ log[i].start # log[i].end
            /\ log[j].end = Beyond(log[i].start, log[i].end) )
              => log[i].ret = log[j].ret

\* both rays of a get_maximum_start call hit, on two different pixels, and
\* the call was repeated with the second landmark further away
C7_Witness ==
    /\ Len(log) = 2
    /\ log[1].op = "get_maximum_start"
    /\ log[2].op = "get_maximum_start"
    /\ log[1].start # log[1].end
    /\ log[1].max1 # << >>
    /\ log[1].max2 # << >>
    /\ log[1].ret.kind = "value"
    /\ log[1].ret.sq > 0

\* ===================================================== the point finders
InitPoint ==
    /\ edges \in RastersOf(<<Rows, Cols>>, MaxBoundary)
    /\ start \in Landmarks
    /\ end \in Landmarks
    /\ log = << >>
    /\ pc = "call"
    /\ RayIdle
    /\ PitIdle

LoggedPoint(op, call) ==
    [op |-> op, start |-> start, end |-> end,
     r_side |-> call.r_side, l_side |-> call.l_side, ret |-> call.ret]

\* a caller of utils/get_maximum.py locates a maximum between two landmarks
CallGetMaximumPoint ==
    /\ pc = "call"
    /\ log' = Append(log, LoggedPoint("get_maximum_point",
                                      get_maximum_point(start, end, edges)))
    /\ pc' = "done"
    /\ UNCHANGED <<edges, rayVars, pitVars, start, end>>

\* YeadonModel locates a maximum between two landmarks
CallYeadonGetMaximumPoint ==
    /\ pc = "call"
    /\ log' = Append(log, LoggedPoint("_get_maximum_point",
                                      _get_maximum_point(start, end, edges)))
    /\ pc' = "done"
    /\ UNCHANGED <<edges, rayVars, pitVars, start, end>>

NextPoint ==
    \/ CallGetMaximumPoint
    \/ CallYeadonGetMaximumPoint

SpecPoint == InitPoint /\ [][NextPoint]_vars

TypePoint ==
    /\ Len(log) <= 1
    /\ \A i \in 1 .. Len(log) :
          /\ log[i].ret.kind \in {"point", "raise"}
          /\ Len(log[i].r_side) <= Samples
          /\ Len(log[i].l_side) <= Samples

\* ---------------------------------------------- claims, the point finders
\* the two hits of sample i of a call, each << >> or a list of one point
OwnHits(call, i) ==
    LET pts    == get_points(call.start, call.end)
        sample == SamplePoints(pts[1], pts[2])[i]
    IN  <<find_edge(sample, sample, vector_angle_plus(pts[1], pts[2]), edges),
          find_edge(sample, sample, vector_angle_minus(pts[1], pts[2]), edges)>>

HasWidth(hits) == hits[1] # << >> /\ hits[2] # << >>

\* the local width of a sample whose two rays hit, squared
OwnWidth(hits) == NormOfDifference(hits[1], hits[2]).sq

\* C8: when the two hit lists have equal length, _get_maximum_point returns
\* a sample whose two rays both hit and whose local width, the distance
\* between its own two hits, is the largest of the local widths of the
\* samples, also when rays of other samples miss.
C8_PointHasMaximalOwnWidth ==
    \A n \in Calls("_get_maximum_point") :
        ( /\ Len(log[n].r_side) = Len(log[n].l_side)
          /\ \E i \in 1 .. Samples : HasWidth(OwnHits(log[n], i)) ) =>
            /\ log[n].ret.kind = "point"
            /\ LET own == OwnHits(log[n], log[n].ret.index + 1)
               IN  /\ HasWidth(own)
                   /\ \A i \in 1 .. Samples :
                         LET other == OwnHits(log[n], i)
                         IN  HasWidth(other) => OwnWidth(other) <= OwnWidth(own)

\* the faults of indexing a list or an array
IndexingFaults == {"TypeError", "IndexError", "AxisError"}

\* C9: when the two hit lists differ in length, get_maximum_point and
\* _get_maximum_point return no point and raise an error that reports the
\* mismatch, not a fault of indexing.
C9_MismatchIsReported ==
    \A n \in Calls("get_maximum_point") \cup Calls("_get_maximum_point") :
        Len(log[n].r_side) # Len(log[n].l_side) =>
            /\ log[n].ret.kind = "raise"
            /\ log[n].ret.exc \notin IndexingFaults

\* ========================================================= the pit finder
\* the largest number of angle steps a loop of get_maximum_pit is followed
MaxSweep == 630

InitPit ==
    /\ edges \in RastersOf(<<Rows, Cols>>, MaxBoundary)
    /\ start \in Landmarks
    /\ end = <<0, 0>>
    /\ log = << >>
    /\ pc = "call"
    /\ RayIdle
    /\ PitIdle

\* point and point2 of get_maximum_pit
PitPoint == <<start[2], start[1]>>
PitPoint2 == <<PitPoint[1] + 5 * CoordDen, PitPoint[2]>>

\* lines 121-130: the first ray, along the rows
PitFirstRay ==
    /\ pc = "call"
    /\ LET vector == <<PitPoint2[1] - PitPoint[1], PitPoint2[2] - PitPoint[2]>>
           a == arctan2(vector[2], vector[1])
           max_save == find_edge(PitPoint, PitPoint2, a, edges)
       IN  /\ angle_radians_left' = a
           /\ angle_radians_right' = a
           /\ max_save_right' = max_save
           /\ max_save_left' = max_save
    /\ pc' = "left"
    /\ UNCHANGED <<edges, rayVars, callVars, max_last_right, max_last_left>>

\* lines 132-137: one pass of the loop that raises the angle
PitRaiseAngle ==
    /\ pc = "left"
    /\ angle_radians_left[1] < MaxSweep * AngleStep
    /\ LET a == Plus(angle_radians_left, Grid(AngleStep))
           last == find_edge(PitPoint, PitPoint2, a, edges)
       IN  /\ angle_radians_left' = a
           /\ max_last_right' = last
           /\ IF ListNorm(last) < ListNorm(max_save_right)
              THEN pc' = "right" /\ UNCHANGED max_save_right
              ELSE pc' = "left" /\ max_save_right' = last
    /\ UNCHANGED <<edges, rayVars, callVars, angle_radians_right,
                   max_save_left, max_last_left>>

\* lines 138-143: one pass of the loop that lowers the angle
PitLowerAngle ==
    /\ pc = "right"
    /\ angle_radians_right[1] > -(MaxSweep * AngleStep)
    /\ LET a == Minus(angle_radians_right, Grid(AngleStep))
           last == find_edge(PitPoint, PitPoint2, a, edges)
       IN  /\ angle_radians_right' = a
           /\ max_last_left' = last
           /\ IF ListNorm(last) < ListNorm(max_save_left)
              THEN pc' = "return" /\ UNCHANGED max_save_left
              ELSE pc' = "right" /\ max_save_left' = last
    /\ UNCHANGED <<edges, rayVars, callVars, angle_radians_left,
                   max_save_right, max_last_right>>

\* lines 144-149
PitReturn ==
    /\ pc = "return"
    /\ log' = Append(log, [op |-> "get_maximum_pit", start |-> start,
                           ret |-> PitReturnValue(max_last_left, max_last_right,
                                                  max_save_left)])
    /\ pc' = "done"
    /\ UNCHANGED <<edges, rayVars, pitVars, start, end>>

NextPit ==
    \/ PitFirstRay
    \/ PitRaiseAngle
    \/ PitLowerAngle
    \/ PitReturn

SpecPit == InitPit /\ [][NextPit]_vars

TypePit ==
    /\ pc \in {"call", "left", "right", "return", "done"}
    /\ angle_radians_left[1] \in 0 .. MaxSweep * AngleStep
    /\ angle_radians_left[2] = 0
    /\ angle_radians_right[1] \in -(MaxSweep * AngleStep) .. 0
    /\ angle_radians_right[2] = 0
    /\ Len(log) <= 1

\* ------------------------------------------------- claims, the pit finder
\* the squared distance from the anchor to a hit pixel, to its corner of
\* lowest indices (the integers find_edge returns) and to its centre
CornerDistance(list) ==
    (CoordDen * list[1][2] - PitPoint[1]) * (CoordDen * list[1][2] - PitPoint[1])
  + (CoordDen * list[1][1] - PitPoint[2]) * (CoordDen * list[1][1] - PitPoint[2])
CentreDistance(list) ==
    (Centre(list[1][2]) - PitPoint[1]) * (Centre(list[1][2]) - PitPoint[1])
  + (Centre(list[1][1]) - PitPoint[2]) * (Centre(list[1][1]) - PitPoint[2])

\* the hit new is nearer to the anchor than the hit old, by one of the two
\* measures, and not nearer by one of them
Nearer(new, old) ==
    \/ CornerDistance(new) < CornerDistance(old)
    \/ CentreDistance(new) < CentreDistance(old)
NotNearer(new, old) ==
    \/ CornerDistance(new) >= CornerDistance(old)
    \/ CentreDistance(new) >= CentreDistance(old)

\* a pass of a loop of get_maximum_pit that compares two hits: the new hit,
\* the hit kept so far, and whether the loop stops
ClimbStops(new, old, stops) ==
    (new # << >> /\ old # << >>) =>
        IF stops THEN Nearer(new, old) ELSE NotNearer(new, old)

\* C10: each loop of get_maximum_pit compares the distance from the anchor
\* to the new hit with the distance from the anchor to the hit kept so far:
\* it goes on while the new distance is not smaller and stops at the first
\* angle step where it is smaller.
C10_ClimbComparesHitDistances ==
    [][ /\ PitRaiseAngle => ClimbStops(max_last_right', max_save_right, pc' = "right")
        /\ PitLowerAngle => ClimbStops(max_last_left', max_save_left, pc' = "return")
      ]_vars

\* the hits the two loops kept: the last hit each loop went on from
AcceptedHits == {max_save_right, max_save_left} \ {<< >>}

\* n is the distance given by the squared distance sq (in 1/CoordDen pixel),
\* cut to an integer
IsDistance(n, sq) ==
    /\ n >= 0
    /\ n * n * CoordDen * CoordDen <= sq
    /\ sq < (n + 1) * (n + 1) * CoordDen * CoordDen

\* C11: get_maximum_pit returns one of the two hits its loops kept, the one
\* further from the anchor, with the distance from the anchor to that hit;
\* a hit on which a loop stopped is not returned unless a loop kept it too.
C11_PitReturnsFurtherKeptHit ==
    (pc = "done" /\ log[1].ret.kind = "pit") =>
        LET hit == << log[1].ret.point >>
        IN  /\ hit \in AcceptedHits
            /\ \A h \in AcceptedHits : NotNearer(hit, h)
            /\ \/ IsDistance(log[1].ret.distance, CornerDistance(hit))
               \/ IsDistance(log[1].ret.distance, CentreDistance(hit))

\* ------------------------------------------------------- region locators
\* the indices of an array in the order np.where lists them: row by row,
\* each row from its first column on
ScanOrder(shape) ==
    [k \in 1 .. shape[1] * shape[2] |->
        <<(k - 1) \div shape[2], (k - 1) % shape[2]>>]

\* np.where(image != 0) and np.where(image == 255): the <<row, column>>
\* indices that pass, in scan order; np.where(..)[0][k] is the row and
\* np.where(..)[1][k] the column of element k + 1 of the sequence
WhereNonZero(image) ==
    LET Test(p) == image.px[p] # 0
    IN  SelectSeq(ScanOrder(image.shape), Test)

WhereIs255(image) ==
    LET Test(p) == image.px[p] = 255
    IN  SelectSeq(ScanOrder(image.shape), Test)


\* the top-left corner <<x1, y1>> and the bottom-right corner <<x2, y2>> that
\* crop() slices between: the int() of the two positions, put in order
CropBox(position_1, position_2) ==
    LET x1 == Trunc(position_1[1], CoordDen)
        y1 == Trunc(position_1[2], CoordDen)
        x2 == Trunc(position_2[1], CoordDen)
        y2 == Trunc(position_2[2], CoordDen)
    IN  [x1 |-> Min2(x1, x2), y1 |-> Min2(y1, y2),
         x2 |-> Max2(x1, x2), y2 |-> Max2(y1, y2)]

\* a crop that shares the pixels of the image it was cut from
CropView(image, position_1, position_2) ==
    LET box == CropBox(position_1, position_2)
        y1  == Min2(box.y1, image.shape[1])
        y2  == Min2(box.y2, image.shape[1])
        x1  == Min2(box.x1, image.shape[2])
        x2  == Min2(box.x2, image.shape[2])
        shape == <<y2 - y1, x2 - x1>>
    IN  [shape |-> shape,
         px    |-> [p \in PixelsOf(shape) |-> image.px[<<y1 + p[1], x1 + p[2]>>]],
         copy  |-> FALSE]

\* crop: image[y1:y2, x1:x2].copy(); a slice ends where the image ends
crop(image, position_1, position_2) ==
    LET box == CropBox(position_1, position_2)
        y1  == Min2(box.y1, image.shape[1])
        y2  == Min2(box.y2, image.shape[1])
        x1  == Min2(box.x1, image.shape[2])
        x2  == Min2(box.x2, image.shape[2])
        shape == <<y2 - y1, x2 - x1>>
    IN  [shape |-> shape,
         px    |-> [p \in PixelsOf(shape) |-> image.px[<<y1 + p[1], x1 + p[2]>>]],
         copy  |-> TRUE]

\* cropped_img[:int(len(cropped_img) / 2), :] = 0 and
\* cropped_img[:, :int(len(cropped_img[0]) / 2)] = 0
Masked(cropped_img) ==
    [cropped_img EXCEPT !.px =
        [p \in PixelsOf(cropped_img.shape) |->
            IF \/ p[1] < cropped_img.shape[1] \div 2
               \/ p[2] < cropped_img.shape[2] \div 2
            THEN 0 ELSE cropped_img.px[p]]]

\* writes to cropped_img that always reach the image
ImageAfterShared(image, position_1, position_2, cropped_img) ==
    LET box == CropBox(position_1, position_2)
    IN  [image EXCEPT !.px =
           [p \in PixelsOf(image.shape) |->
               LET q == <<p[1] - box.y1, p[2] - box.x1>>
               IN  IF q \in PixelsOf(cropped_img.shape)
                   THEN cropped_img.px[q] ELSE image.px[p]]]

\* the image after the writes to cropped_img: they reach the image only
\* when the crop shares its pixels
ImageAfter(image, position_1, position_2, cropped_img) ==
    IF cropped_img.copy THEN image
    ELSE LET box == CropBox(position_1, position_2)
         IN  [image EXCEPT !.px =
                [p \in PixelsOf(image.shape) |->
                    LET q == <<p[1] - box.y1, p[2] - box.x1>>
                    IN  IF q \in PixelsOf(cropped_img.shape)
                        THEN cropped_img.px[q] ELSE image.px[p]]]

\* a top-of-head finder that answers [row, column]
FindTopOfHeadRowFirst(image) ==
    LET where == WhereNonZero(image)
    IN  IF Len(where) = 0 THEN Raise("IndexError")
        ELSE [kind |-> "pixel", pixel |-> <<where[1][1], where[1][2]>>]

\* _find_top_of_head: [column, row] of the first element of np.where
_find_top_of_head(image) ==
    LET where == WhereNonZero(image)
    IN  IF Len(where) = 0 THEN Raise("IndexError")
        ELSE [kind |-> "pixel", pixel |-> <<where[1][2], where[1][1]>>]

\* the body shared by _find_acromion_right and _find_acromion_left; sign is
\* -1 on the right and +1 on the left.  len(cropped_img[0]) needs a first
\* row; ret is the outcome and edges the raster after the call
FindAcromion(image, ear, shoulder, sign) ==
    LET cropped == crop(image, ear, shoulder)
    IN  IF cropped.shape[1] = 0
        THEN [ret |-> Raise("IndexError"), cropped_img |-> cropped, edges |-> image]
        ELSE LET cropped_img == Masked(cropped)
                 where       == WhereIs255(cropped_img)
             IN  [ret |-> IF Len(where) = 0 THEN Raise("IndexError")
                          ELSE [kind  |-> "point",
                                point |-> <<ear[1] + sign * where[1][2] * CoordDen,
                                            ear[2] + where[1][1] * CoordDen>>],
                  cropped_img |-> cropped_img,
                  edges |-> ImageAfter(image, ear, shoulder, cropped_img)]

\* r_ear, r_shoulder = data[4], data[6]
_find_acromion_right(image, data) == FindAcromion(image, data[4], data[6], -1)

\* l_ear, l_shoulder = data[3], data[5]
_find_acromion_left(image, data) == FindAcromion(image, data[3], data[5], 1)

\* a crotch finder that takes the row of the first element of np.where
CrotchFromFirstPixel(image, data) ==
    LET crotch_zone == crop(image, data[12], data[13])
        where       == WhereNonZero(crotch_zone)
    IN  IF Len(where) < 2 THEN Raise("IndexError")
        ELSE LET crotch_approx_crop == <<where[1][2], where[1][1]>>
             IN  [kind  |-> "points",
                  right |-> <<data[12][1], data[12][2] + crotch_approx_crop[2] * CoordDen>>,
                  left  |-> <<data[11][1], data[11][2] + crotch_approx_crop[2] * CoordDen>>]

\* _get_crotch_right_left: crotch_approx_crop is (column of the first
\* element, row of the second element) of np.where(crotch_zone != 0)
_get_crotch_right_left(image, data) ==
    LET crotch_zone == crop(image, data[12], data[13])
        where       == WhereNonZero(crotch_zone)
    IN  IF Len(where) < 2 THEN Raise("IndexError")
        ELSE LET crotch_approx_crop == <<where[1][2], where[2][1]>>
             IN  [kind  |-> "points",
                  right |-> <<data[12][1], data[12][2] + crotch_approx_crop[2] * CoordDen>>,
                  left  |-> <<data[11][1], data[11][2] + crotch_approx_crop[2] * CoordDen>>]

\* ----------------------------------------- specification, region locators
\* keypoints with whole-pixel coordinates <<x, y>>, corners of the raster
\* included
Keypoints == { <<CoordDen * x, CoordDen * y>> : x \in 0 .. Cols, y \in 0 .. Rows }

\* the left hips (data[11]) the crotch finder is called with
LeftHips == { <<0, 0>>, <<CoordDen * Cols, CoordDen>> }

InitRegion ==
    /\ edges \in RastersOf(<<Rows, Cols>>, MaxBoundary)
    /\ start \in Keypoints
    /\ end \in Keypoints
    /\ log = << >>
    /\ pc = "call"
    /\ RayIdle
    /\ PitIdle

\* body_parts_pos["top_of_head"] = self._find_top_of_head(edges)
CallFindTopOfHead ==
    /\ pc = "call"
    /\ log' = Append(log, [op |-> "_find_top_of_head", before |-> edges,
                           ret |-> _find_top_of_head(edges)])
    /\ pc' = "done"
    /\ UNCHANGED <<edges, rayVars, pitVars, start, end>>

\* body_parts_pos["right_acromion"] = self._find_acromion_right(edges, data)
\* with the right ear at start and the right shoulder at end
CallFindAcromionRight ==
    /\ pc = "call"
    /\ LET call == _find_acromion_right(edges, (4 :> start) @@ (6 :> end))
       IN  /\ log' = Append(log, [op |-> "_find_acromion_right", before |-> edges,
                                  cropped_img |-> call.cropped_img,
                                  ret |-> call.ret])
           /\ edges' = call.edges
    /\ pc' = "done"
    /\ UNCHANGED <<rayVars, pitVars, start, end>>

\* body_parts_pos["left_acromion"] = self._find_acromion_left(edges, data)
\* with the left ear at start and the left shoulder at end
CallFindAcromionLeft ==
    /\ pc = "call"
    /\ LET call == _find_acromion_left(edges, (3 :> start) @@ (5 :> end))
       IN  /\ log' = Append(log, [op |-> "_find_acromion_left", before |-> edges,
                                  cropped_img |-> call.cropped_img,
                                  ret |-> call.ret])
           /\ edges' = call.edges
    /\ pc' = "done"
    /\ UNCHANGED <<rayVars, pitVars, start, end>>

\* self._get_crotch_right_left(edges, data) with the right hip at start, the
\* left knee at end and the left hip at one of LeftHips
CallGetCrotchRightLeft ==
    /\ pc = "call"
    /\ \E hip \in LeftHips :
         log' = Append(log, [op |-> "_get_crotch_right_left", before |-> edges,
                             left_hip |-> hip,
                             ret |-> _get_crotch_right_left(edges,
                                        (11 :> hip) @@ (12 :> start) @@ (13 :> end))])
    /\ pc' = "done"
    /\ UNCHANGED <<edges, rayVars, pitVars, start, end>>

NextRegion ==
    \/ CallFindTopOfHead
    \/ CallFindAcromionRight
    \/ CallFindAcromionLeft
    \/ CallGetCrotchRightLeft

SpecRegion == InitRegion /\ [][NextRegion]_vars

TypeRegion ==
    /\ Len(log) <= 1
    /\ \A i \in 1 .. Len(log) :
         log[i].ret.kind \in {"pixel", "point", "points", "raise"}

\* ------------------------------------------- claims, the region locators
\* <<row, column>> p comes before q when the raster is read row by row
Earlier(p, q) == p[1] < q[1] \/ (p[1] = q[1] /\ p[2] < q[2])

\* the calls of op that have returned
RegionCalls(op) == { i \in 1 .. Len(log) : log[i].op = op }

\* C12: on a raster with at least one boundary pixel _find_top_of_head
\* returns (x, y) = (column, row) of the boundary pixel that no other
\* boundary pixel precedes in row-major order.
C12_TopOfHeadIsFirstBoundaryPixel ==
    \A i \in RegionCalls("_find_top_of_head") :
        Boundary(log[i].before) # {} =>
            /\ log[i].ret.kind = "pixel"
            /\ LET p == <<log[i].ret.pixel[2], log[i].ret.pixel[1]>>
               IN  /\ p \in Boundary(log[i].before)
                   /\ \A q \in Boundary(log[i].before) : ~Earlier(q, p)

\* a call on a raster whose first boundary pixel by rows, at the last
\* column of the first row, is not the first by columns
C12_Witness ==
    \E i \in RegionCalls("_find_top_of_head") :
        /\ Boundary(log[i].before) = {<<0, Cols - 1>>, <<1, 0>>}
        /\ log[i].ret.kind = "pixel"
        /\ log[i].ret.pixel = <<Cols - 1, 0>>

\* the raster pixels <<row, column>> inside the bounding box of two keypoints
BoxPixels(image, a, b) ==
    LET box == CropBox(a, b)
    IN  { p \in PixelsOf(image.shape) :
            /\ box.y1 <= p[1] /\ p[1] < box.y2
            /\ box.x1 <= p[2] /\ p[2] < box.x2 }

\* the pixels of the box outside its top half and outside its left half
UnmaskedQuadrant(image, a, b) ==
    LET box == CropBox(a, b)
    IN  { p \in BoxPixels(image, a, b) :
            /\ 2 * (p[1] - box.y1) >= box.y2 - box.y1 - 1
            /\ 2 * (p[2] - box.x1) >= box.x2 - box.x1 - 1 }

\* the boundary pixels the call of log entry i is left to read from
RegionRead(i) ==
    IF log[i].op = "_find_top_of_head" THEN Boundary(log[i].before)
    ELSE IF log[i].op = "_get_crotch_right_left"
         THEN Boundary(log[i].before) \cap BoxPixels(log[i].before, start, end)
         ELSE Boundary(log[i].before) \cap UnmaskedQuadrant(log[i].before, start, end)

\* the number of boundary pixels the call of log entry i reads
RegionNeeds(i) == IF log[i].op = "_get_crotch_right_left" THEN 2 ELSE 1

\* C13: a region locator whose raster or cropped and masked region holds no
\* boundary pixel (for the crotch finder, fewer than the two it reads)
\* fails with an error that reports the empty region, not with a fault of
\* indexing.
C13_EmptyRegionIsReported ==
    \A i \in 1 .. Len(log) :
        Cardinality(RegionRead(i)) < RegionNeeds(i) =>
            /\ log[i].ret.kind = "raise"
            /\ log[i].ret.exc \notin IndexingFaults

\* what the code does on such a region: every locator raises IndexError
C13_RaisesIndexError ==
    \A i \in 1 .. Len(log) :
        Cardinality(RegionRead(i)) < RegionNeeds(i) <=>
            log[i].ret = Raise("IndexError")

\* the raster pixel <<row, column>> at a point <<x, y>> with whole
\* coordinates; <<-1, -1>>, no pixel, for any other point
PixelAt(point) ==
    IF point[1] % CoordDen = 0 /\ point[2] % CoordDen = 0
    THEN <<point[2] \div CoordDen, point[1] \div CoordDen>>
    ELSE <<-1, -1>>

\* the acromion calls that returned a point
AcromionPoints ==
    { i \in RegionCalls("_find_acromion_right") \cup RegionCalls("_find_acromion_left") :
        log[i].ret.kind = "point" }

\* C14: when the masked crop still holds a boundary pixel, the acromion
\* finders return the raster coordinates of the first boundary pixel, in
\* row-major order, of the unmasked quadrant of the ear-shoulder box: the
\* raster has a boundary pixel at the returned (x, y), inside that quadrant.
C14_AcromionIsFirstUnmaskedBoundaryPixel ==
    \A i \in AcromionPoints :
        LET region == Boundary(log[i].before) \cap UnmaskedQuadrant(log[i].before, start, end)
            p      == PixelAt(log[i].ret.point)
        IN  /\ p \in region
            /\ \A q \in region : ~Earlier(q, p)

\* the same for the left side with the ear at the top-left corner of the box
C14_LeftEarAtTopLeft ==
    \A i \in AcromionPoints :
        (log[i].op = "_find_acromion_left" /\ start[1] <= end[1] /\ start[2] <= end[2]) =>
            LET region == Boundary(log[i].before) \cap UnmaskedQuadrant(log[i].before, start, end)
                p      == PixelAt(log[i].ret.point)
            IN  /\ p \in region
                /\ \A q \in region : ~Earlier(q, p)

\* the crotch calls that returned two points
CrotchPoints ==
    { i \in RegionCalls("_get_crotch_right_left") : log[i].ret.kind = "points" }

\* the boundary pixels of the raster inside the hip-knee box of call i
CrotchRegion(i) == Boundary(log[i].before) \cap BoxPixels(log[i].before, start, end)

\* the pixel of region that exactly n others precede in scan order
NthInScan(region, n) ==
    CHOOSE p \in region : Cardinality({ q \in region : Earlier(q, p) }) = n

\* both points of call i are built with one offset: x is the own hip's x
\* and y the own hip's y plus the offset (in pixels)
BuiltWithOffset(i, offset) ==
    /\ log[i].ret.right = <<start[1], start[2] + offset * CoordDen>>
    /\ log[i].ret.left = <<log[i].left_hip[1], log[i].left_hip[2] + offset * CoordDen>>

\* C15, as stated: the two points share the horizontal offset found in the
\* crop, the column (within the crop) of its first boundary pixel, added to
\* each hip's vertical coordinate.
C15_CrotchPointsShareColumnOffset ==
    \A i \in CrotchPoints :
        BuiltWithOffset(i, NthInScan(CrotchRegion(i), 0)[2] - CropBox(start, end).x1)

\* C15, amended: when the crop between the right hip and the left knee holds
\* two boundary pixels, the two points share the vertical offset found in
\* the crop, the row (within the crop) of its second boundary pixel in scan
\* order: each point has its own hip's x, and its own hip's y plus that row.
C15_CrotchPointsShareRowOffset ==
    \A i \in RegionCalls("_get_crotch_right_left") :
        Cardinality(CrotchRegion(i)) >= 2 =>
            /\ log[i].ret.kind = "points"
            /\ BuiltWithOffset(i, NthInScan(CrotchRegion(i), 1)[1] - CropBox(start, end).y1)

\* a call whose crop has its first boundary pixel in its first row and its
\* second in the row below, with two hips at different places
C15_Witness ==
    \E i \in CrotchPoints :
        /\ NthInScan(CrotchRegion(i), 0)[1] = CropBox(start, end).y1
        /\ NthInScan(CrotchRegion(i), 1)[1] = CropBox(start, end).y1 + 1
        /\ log[i].left_hip # start
        /\ log[i].ret.right[2] = start[2] + CoordDen

\* ============================================================ perimeters
\* the largest length, in pixels, a perimeter is asked for
MaxLength == 20

\* lengths are whole pixels and radii half pixels; a perimeter is counted in
\* 1/PerimeterDen pixel, so that pi = Pi / AngleUnit times a radius of n half
\* pixels is Pi * n
PerimeterDen == 2 * AngleUnit

Number(value) == [kind |-> "number", value |-> value]

\* a stadium perimeter that takes the depth for the radius
StadiumPerimeterFullRadius(width, depth) ==
    LET radius    == 2 * depth
        a         == width - depth
        perimeter == 2 * (Pi * radius + a * PerimeterDen)
    IN  Number(perimeter)

\* _stadium_perimeter: radius = depth / 2, a = width - depth,
\* perimeter = 2 * (np.pi * radius + a); nothing is tested
_stadium_perimeter(width, depth) ==
    LET radius    == depth
        a         == width - depth
        perimeter == 2 * (Pi * radius + a * PerimeterDen)
    IN  Number(perimeter)

\* _circle_perimeter: r = diag / 2, 2 * np.pi * r
_circle_perimeter(diag) ==
    LET r == diag
    IN  Number(2 * Pi * r)

\* the lengths the perimeters are called with
Lengths == -2 .. MaxLength

InitPerimeter ==
    /\ edges \in RastersOf(<<1, 1>>, 0)
    /\ CallIdle
    /\ pc = "call"
    /\ RayIdle
    /\ PitIdle

\* self._stadium_perimeter(width, depth)
CallStadiumPerimeter ==
    /\ pc = "call"
    /\ \E width \in Lengths, depth \in Lengths :
         log' = Append(log, [op |-> "_stadium_perimeter", width |-> width,
                             depth |-> depth,
                             ret |-> _stadium_perimeter(width, depth)])
    /\ pc' = "done"
    /\ UNCHANGED <<edges, rayVars, pitVars, start, end>>

\* self._circle_perimeter(diag)
CallCirclePerimeter ==
    /\ pc = "call"
    /\ \E diag \in Lengths :
         log' = Append(log, [op |-> "_circle_perimeter", diag |-> diag,
                             ret |-> _circle_perimeter(diag)])
    /\ pc' = "done"
    /\ UNCHANGED <<edges, rayVars, pitVars, start, end>>

NextPerimeter == CallStadiumPerimeter \/ CallCirclePerimeter

SpecPerimeter == InitPerimeter /\ [][NextPerimeter]_vars

TypePerimeter ==
    /\ Len(log) <= 1
    /\ \A i \in 1 .. Len(log) : log[i].ret.kind \in {"number", "raise"}

\* ------------------------------------------------ claims, the perimeters
\* the stadium calls made with width >= depth >= 0
ValidStadiumCalls ==
    { i \in 1 .. Len(log) :
        /\ log[i].op = "_stadium_perimeter"
        /\ log[i].width >= log[i].depth
        /\ log[i].depth >= 0 }

\* pi * n + m pixels, in 1/PerimeterDen pixel
PiTimesPlus(n, m) == 2 * Pi * n + PerimeterDen * m

\* C16: for width >= depth >= 0 the stadium perimeter is
\* 2 * (pi * depth / 2 + (width - depth)), that is pi * depth plus twice
\* the straight part; with width = depth it is the circle perimeter of depth
\* and pi * depth, and for width 20, depth 10 it is 10 * pi + 20.
C16_StadiumPerimeterValue ==
    \A i \in ValidStadiumCalls :
        LET width == log[i].width
            depth == log[i].depth
        IN  /\ log[i].ret = Number(PiTimesPlus(depth, 2 * (width - depth)))
            /\ width = depth =>
                 /\ log[i].ret = _circle_perimeter(depth)
                 /\ log[i].ret = Number(PiTimesPlus(depth, 0))
            /\ (width = 20 /\ depth = 10) =>
                 log[i].ret = Number(PiTimesPlus(10, 20))

\* the stadium of width 20 and depth 10 has been measured
C16_Witness ==
    \E i \in ValidStadiumCalls :
        /\ log[i].width = 20
        /\ log[i].depth = 10
        /\ log[i].ret = Number(10 * 2 * Pi + 20 * PerimeterDen)

\* the stadium calls made with width < depth or with a negative length
InvalidStadiumCalls ==
    { i \in 1 .. Len(log) : log[i].op = "_stadium_perimeter" } \ ValidStadiumCalls

\* C17: a stadium perimeter asked with width < depth, or with a negative
\* width or depth, is answered with the report of a contract violation, not
\* with a number.
C17_InvalidStadiumIsReported ==
    \A i \in InvalidStadiumCalls : log[i].ret.kind = "raise"

\* ================================================= the measurement batch
\* YeadonModel.__init__ computes its measurements one after the other, each
\* stored under its name; no call is inside a try statement, so an exception
\* raised by one of them leaves __init__ and no mapping is built.  The batch
\* is followed statement by statement from body_parts_pos["left_acromion"]
\* to body_parts_pos["left_mid_thigh"], the measurements of the front view;
\* an entry of log is a measurement stored so far.
InitBatch ==
    /\ edges \in RastersOf(<<Rows, Cols>>, MaxBoundary)
    /\ start \in Landmarks
    /\ end \in Landmarks
    /\ log = << >>
    /\ pc = "left_acromion"
    /\ RayIdle
    /\ PitIdle

\* the rows of data the front view measurements read: the ears (3, 4) and
\* the hips (11, 12) on the keypoint start, the shoulders, elbows, wrists,
\* knees and ankles (5 .. 10, 13 .. 16) on the keypoint end
BatchData ==
    [ row \in 3 .. 16 |-> IF row \in {3, 4, 11, 12} THEN start ELSE end ]

\* _get_mid_thigh_right_left: the midpoints of the knees and the crotches
_get_mid_thigh_right_left(data, r_crotch, l_crotch) ==
    [kind  |-> "points",
     right |-> <<(data[14][1] + r_crotch[1]) \div 2, (data[14][2] + r_crotch[2]) \div 2>>,
     left  |-> <<(data[13][1] + l_crotch[1]) \div 2, (data[13][2] + l_crotch[2]) \div 2>>]

\* one statement of the batch: the measurement name is stored when the call
\* returns, and the exception leaves __init__ when it raises
BatchStep(name, ret, next) ==
    IF ret.kind = "raise"
    THEN /\ pc' = "aborted"
         /\ log' = << [name |-> "__init__", ret |-> ret] >>
    ELSE /\ pc' = next
         /\ log' = Append(log, [name |-> name, ret |-> ret])

\* body_parts_pos["left_acromion"] = self._find_acromion_left(edges, data)
BatchLeftAcromion ==
    /\ pc = "left_acromion"
    /\ LET call == _find_acromion_left(edges, BatchData)
       IN  /\ BatchStep("left_acromion", call.ret, "right_acromion")
           /\ edges' = call.edges
    /\ UNCHANGED <<rayVars, pitVars, start, end>>

\* body_parts_pos["right_acromion"] = self._find_acromion_right(edges, data)
BatchRightAcromion ==
    /\ pc = "right_acromion"
    /\ LET call == _find_acromion_right(edges, BatchData)
       IN  /\ BatchStep("right_acromion", call.ret, "top_of_head")
           /\ edges' = call.edges
    /\ UNCHANGED <<rayVars, pitVars, start, end>>

\* body_parts_pos["top_of_head"] = self._find_top_of_head(edges)
BatchTopOfHead ==
    /\ pc = "top_of_head"
    /\ BatchStep("top_of_head", _find_top_of_head(edges), "right_maximum_forearm")
    /\ UNCHANGED <<edges, rayVars, pitVars, start, end>>

\* body_parts_pos["right_maximum_forearm"] = self._get_maximum_point(data[10], data[8], edges)
BatchRightForearm ==
    /\ pc = "right_maximum_forearm"
    /\ BatchStep("right_maximum_forearm",
                 _get_maximum_point(BatchData[10], BatchData[8], edges).ret,
                 "left_maximum_forearm")
    /\ UNCHANGED <<edges, rayVars, pitVars, start, end>>

\* body_parts_pos["left_maximum_forearm"] = self._get_maximum_point(data[9], data[7], edges)
BatchLeftForearm ==
    /\ pc = "left_maximum_forearm"
    /\ BatchStep("left_maximum_forearm",
                 _get_maximum_point(BatchData[9], BatchData[7], edges).ret,
                 "right_maximum_calf")
    /\ UNCHANGED <<edges, rayVars, pitVars, start, end>>

\* body_parts_pos["right_maximum_calf"] = self._get_maximum_point(data[16], data[14], edges)
BatchRightCalf ==
    /\ pc = "right_maximum_calf"
    /\ BatchStep("right_maximum_calf",
                 _get_maximum_point(BatchData[16], BatchData[14], edges).ret,
                 "left_maximum_calf")
    /\ UNCHANGED <<edges, rayVars, pitVars, start, end>>

\* body_parts_pos["left_maximum_calf"] = self._get_maximum_point(data[15], data[13], edges)
BatchLeftCalf ==
    /\ pc = "left_maximum_calf"
    /\ BatchStep("left_maximum_calf",
                 _get_maximum_point(BatchData[15], BatchData[13], edges).ret,
                 "right_crotch")
    /\ UNCHANGED <<edges, rayVars, pitVars, start, end>>

\* body_parts_pos["right_crotch"], body_parts_pos["left_crotch"] =
\*     self._get_crotch_right_left(edges, data)
BatchCrotch ==
    /\ pc = "right_crotch"
    /\ BatchStep("right_crotch", _get_crotch_right_left(edges, BatchData), "right_mid_thigh")
    /\ UNCHANGED <<edges, rayVars, pitVars, start, end>>

\* body_parts_pos["right_mid_thigh"], body_parts_pos["left_mid_thigh"] =
\*     self._get_mid_thigh_right_left(data, body_parts_pos["right_crotch"],
\*                                    body_parts_pos["left_crotch"])
\* after it __init__ goes on to left_lowest_front_rib_approx, the first
\* statement of the arms-up view
BatchMidThigh ==
    /\ pc = "right_mid_thigh"
    /\ LET crotch == log[Len(log)].ret
       IN  BatchStep("right_mid_thigh",
                     _get_mid_thigh_right_left(BatchData, crotch.right, crotch.left),
                     "left_lowest_front_rib")
    /\ UNCHANGED <<edges, rayVars, pitVars, start, end>>

NextBatch ==
    \/ BatchLeftAcromion
    \/ BatchRightAcromion
    \/ BatchTopOfHead
    \/ BatchRightForearm
    \/ BatchLeftForearm
    \/ BatchRightCalf
    \/ BatchLeftCalf
    \/ BatchCrotch
    \/ BatchMidThigh

SpecBatch == InitBatch /\ [][NextBatch]_vars

\* the names of the measurements of the batch, in the order they are taken
BatchNames ==
    <<"left_acromion", "right_acromion", "top_of_head", "right_maximum_forearm",
      "left_maximum_forearm", "right_maximum_calf", "left_maximum_calf",
      "right_crotch", "right_mid_thigh">>

TypeBatch ==
    /\ pc \in {"left_lowest_front_rib", "aborted"}
              \cup { BatchNames[i] : i \in 1 .. Len(BatchNames) }
    /\ Len(log) <= Len(BatchNames)

\* ------------------------------------------------------ claims, the batch
\* the value a failed measurement is asked to appear as
Missing == [kind |-> "missing"]

\* what measurement k of the batch gives when it is taken on its own
BatchOutcome(k) ==
    CASE k = 1 -> _find_acromion_left(edges, BatchData).ret
      [] k = 2 -> _find_acromion_right(edges, BatchData).ret
      [] k = 3 -> _find_top_of_head(edges)
      [] k = 4 -> _get_maximum_point(BatchData[10], BatchData[8], edges).ret
      [] k = 5 -> _get_maximum_point(BatchData[9], BatchData[7], edges).ret
      [] k = 6 -> _get_maximum_point(BatchData[16], BatchData[14], edges).ret
      [] k = 7 -> _get_maximum_point(BatchData[15], BatchData[13], edges).ret
      [] k = 8 -> _get_crotch_right_left(edges, BatchData)
      [] k = 9 -> LET crotch == _get_crotch_right_left(edges, BatchData)
                  IN  IF crotch.kind = "raise" THEN crotch
                      ELSE _get_mid_thigh_right_left(BatchData, crotch.right, crotch.left)

\* the measurements of the front view have all been taken, or __init__ has
\* been left by an exception
BatchEnded == pc \in {"left_lowest_front_rib", "aborted"}

\* C18: when the batch has ended, every measurement that succeeds is in the
\* mapping with its value and every measurement that fails is in it as a
\* tagged missing value: one failure does not abort the batch.
C18_FailureDoesNotAbortBatch ==
    BatchEnded =>
        \A k \in 1 .. Len(BatchNames) :
            \E i \in 1 .. Len(log) :
                /\ log[i].name = BatchNames[k]
                /\ log[i].ret = IF BatchOutcome(k).kind = "raise"
                                THEN Missing ELSE BatchOutcome(k)

\* what the code does: the measurements are all stored only when none of
\* them fails, and the first exception is all that is left otherwise
C18_FirstFailureAborts ==
    /\ pc = "left_lowest_front_rib" =>
         \A k \in 1 .. Len(BatchNames) :
             /\ BatchOutcome(k).kind # "raise"
             /\ log[k] = [name |-> BatchNames[k], ret |-> BatchOutcome(k)]
    /\ pc = "aborted" =>
         \E k \in 1 .. Len(BatchNames) :
             /\ BatchOutcome(k).kind = "raise"
             /\ \A j \in 1 .. k - 1 : BatchOutcome(j).kind # "raise"
             /\ log = << [name |-> "__init__", ret |-> BatchOutcome(k)] >>

\* ===================================================== the engine, called
\* get_maximum_pit as one call.  The hit at n angle steps from the angle of
\* the first ray, counted up for the first loop and down for the second
PitHit(anchor, image, angle, n) ==
    LET point  == <<anchor[2], anchor[1]>>
        point2 == <<point[1] + 5 * CoordDen, point[2]>>
    IN  find_edge(point, point2, Plus(angle, Grid(n * AngleStep)), image)

\* the passes lo .. hi of a loop that enters pass lo with the hit save kept:
\* stop is the first pass whose hit is nearer the origin than the hit kept
\* (0 when no pass of lo .. hi is), last that hit and save the hit kept then
PitOnePass(n, last, save_in) ==
    IF ListNorm(last) < ListNorm(save_in)
    THEN [stop |-> n, last |-> last, save |-> save_in]
    ELSE [stop |-> 0, last |-> last, save |-> last]

RECURSIVE PitLoop(_, _, _, _, _, _, _)
RECURSIVE PitLoopOn(_, _, _, _, _, _, _)
PitLoop(anchor, image, angle, sign, lo, hi, save_in) ==
    IF lo = hi
    THEN PitOnePass(lo, PitHit(anchor, image, angle, sign * lo), save_in)
    ELSE PitLoopOn(PitLoop(anchor, image, angle, sign, lo, (lo + hi) \div 2, save_in),
                   anchor, image, angle, sign, (lo + hi) \div 2 + 1, hi)

\* the passes lo .. hi after the passes before them gave first
PitLoopOn(first, anchor, image, angle, sign, lo, hi) ==
    IF first.stop # 0 THEN first
    ELSE PitLoop(anchor, image, angle, sign, lo, hi, first.save)

\* get_maximum_pit(start, edges); a loop that goes on for MaxSweep passes is
\* not followed further
PitSecondLoop(left, right) ==
    IF left.stop = 0 THEN [kind |-> "running"]
    ELSE PitReturnValue(left.last, right.last, left.save)

PitFirstLoop(right, anchor, image, angle, max_save) ==
    IF right.stop = 0 THEN [kind |-> "running"]
    ELSE PitSecondLoop(PitLoop(anchor, image, angle, -1, 1, MaxSweep, max_save), right)

PitLoops(anchor, image, angle, max_save) ==
    PitFirstLoop(PitLoop(anchor, image, angle, 1, 1, MaxSweep, max_save),
                 anchor, image, angle, max_save)

PitFrom(anchor, image, angle) ==
    PitLoops(anchor, image, angle, PitHit(anchor, image, angle, 0))

get_maximum_pit(anchor, image) == PitFrom(anchor, image, arctan2(0, 5 * CoordDen))

\* ------------------------------------------------ specification, the engine
\* The engine functions as a library, called from outside.  The session is
\* not YeadonModel.__init__, which makes its own calls on its own arguments
\* and which the first exception leaves (the front view measurements above):
\* it is a client that holds one raster and two keypoints, calls each engine
\* function on them, twice over, and keeps what every call gave, a value or
\* the exception it caught, before it makes the next call.  The order of the
\* calls is the client's; what a call gives is the engine function's.  An
\* entry of log is a call and what it gave.
EnginePass ==
    <<"find_edge", "get_maximum_line", "get_maximum_start", "get_maximum_point",
      "_find_top_of_head", "_find_acromion_left", "_find_acromion_right",
      "_get_crotch_right_left", "_stadium_perimeter", "_circle_perimeter">>

\* get_maximum_pit, which may not return, is called last, twice, with the
\* calls that write to a crop in between
PitPass == <<"get_maximum_pit", "_find_acromion_left", "_find_acromion_right",
             "get_maximum_pit">>

EngineOrder == EnginePass \o EnginePass \o PitPass

\* the two keypoints of the client: the landmarks at the top-left and at the
\* bottom-right of the raster
EngineStart == <<Centre(0), Centre(0)>>
EngineEnd == <<Centre(Cols - 1), Centre(Rows - 1)>>

InitEngine ==
    /\ edges \in RastersOf(<<Rows, Cols>>, MaxBoundary)
    /\ start = EngineStart
    /\ end = EngineEnd
    /\ log = << >>
    /\ pc = "session"
    /\ RayIdle
    /\ PitIdle

\* the client is about to call op
EngineAt(op) ==
    /\ pc = "session"
    /\ EngineOrder[Len(log) + 1] = op

\* the call gave entry and left the raster as image
EngineReturn(entry, image) ==
    /\ log' = Append(log, entry)
    /\ edges' = image
    /\ pc' = IF Len(log) + 1 = Len(EngineOrder) THEN "done" ELSE "session"
    /\ UNCHANGED <<rayVars, pitVars, start, end>>

\* the data rows the region locators read
EngineData ==
    (3 :> start) @@ (4 :> start) @@ (5 :> end) @@ (6 :> end) @@
    (11 :> end) @@ (12 :> start) @@ (13 :> end)

EngineFindEdge ==
    /\ EngineAt("find_edge")
    /\ LET pts == get_points(start, end)
       IN  EngineReturn([op |-> "find_edge",
                         ret |-> find_edge(pts[1], pts[2], QuarterPi, edges)], edges)

EngineGetMaximumLine ==
    /\ EngineAt("get_maximum_line")
    /\ EngineReturn([op |-> "get_maximum_line",
                     ret |-> get_maximum_line(start, end, edges).ret], edges)

EngineGetMaximumStart ==
    /\ EngineAt("get_maximum_start")
    /\ EngineReturn([op |-> "get_maximum_start",
                     ret |-> get_maximum_start(start, end, edges).ret], edges)

EngineGetMaximumPoint ==
    /\ EngineAt("get_maximum_point")
    /\ EngineReturn([op |-> "get_maximum_point",
                     ret |-> get_maximum_point(start, end, edges).ret], edges)

EngineFindTopOfHead ==
    /\ EngineAt("_find_top_of_head")
    /\ EngineReturn([op |-> "_find_top_of_head", ret |-> _find_top_of_head(edges)],
                    edges)

EngineFindAcromionLeft ==
    /\ EngineAt("_find_acromion_left")
    /\ LET call == _find_acromion_left(edges, EngineData)
       IN  EngineReturn([op |-> "_find_acromion_left", ret |-> call.ret,
                         cropped_img |-> call.cropped_img], call.edges)

EngineFindAcromionRight ==
    /\ EngineAt("_find_acromion_right")
    /\ LET call == _find_acromion_right(edges, EngineData)
       IN  EngineReturn([op |-> "_find_acromion_right", ret |-> call.ret,
                         cropped_img |-> call.cropped_img], call.edges)

EngineGetCrotchRightLeft ==
    /\ EngineAt("_get_crotch_right_left")
    /\ EngineReturn([op |-> "_get_crotch_right_left",
                     ret |-> _get_crotch_right_left(edges, EngineData)], edges)

EngineStadiumPerimeter ==
    /\ EngineAt("_stadium_perimeter")
    /\ EngineReturn([op |-> "_stadium_perimeter",
                     ret |-> _stadium_perimeter(Cols, Rows)], edges)

EngineCirclePerimeter ==
    /\ EngineAt("_circle_perimeter")
    /\ EngineReturn([op |-> "_circle_perimeter", ret |-> _circle_perimeter(Cols)],
                    edges)

\* the call returns only when both loops stop
EngineGetMaximumPit ==
    /\ EngineAt("get_maximum_pit")
    /\ LET ret == get_maximum_pit(start, edges)
       IN  /\ ret.kind # "running"
           /\ EngineReturn([op |-> "get_maximum_pit", ret |-> ret], edges)

NextEngine ==
    \/ EngineFindEdge
    \/ EngineGetMaximumLine
    \/ EngineGetMaximumStart
    \/ EngineGetMaximumPoint
    \/ EngineFindTopOfHead
    \/ EngineFindAcromionLeft
    \/ EngineFindAcromionRight
    \/ EngineGetCrotchRightLeft
    \/ EngineStadiumPerimeter
    \/ EngineCirclePerimeter
    \/ EngineGetMaximumPit

SpecEngine == InitEngine /\ [][NextEngine]_vars

TypeEngine ==
    /\ pc \in {"session", "done"}
    /\ Len(log) <= Len(EngineOrder)
    /\ pc = "done" <=> Len(log) = Len(EngineOrder)

\* ----------------------------------------------------- claims, the engine
\* the acromion calls of the session
AcromionCalls ==
    { i \in 1 .. Len(log) :
        log[i].op \in {"_find_acromion_left", "_find_acromion_right"} }

\* call i wrote a zero over boundary pixel p of its crop
MaskedOut(i, p) ==
    /\ p \in PixelsOf(log[i].cropped_img.shape)
    /\ log[i].cropped_img.px[p] = 0
    /\ crop(edges, start, end).px[p] = 255

\* C19: no call of an engine function changes the raster it is given: every
\* pixel has after the call the value it had before it, also after the
\* acromion finders, whose masking writes zeros.
C19_RasterIsNotModified == [][edges' = edges]_vars

\* an acromion call has masked out a boundary pixel of its crop, which the
\* raster still holds
C19_Witness ==
    \E i \in AcromionCalls : \E p \in PixelsOf(log[i].cropped_img.shape) :
        MaskedOut(i, p)

\* C20: two calls of the same engine function with the same inputs give the
\* same, whatever engine functions are called in between.
C20_SameCallSameResult ==
    \A i, j \in 1 .. Len(log) :
        log[i].op = log[j].op => log[i].ret = log[j].ret

\* _find_top_of_head has returned the same pixel twice, with an acromion call
\* in between that masked that pixel out of its crop
C20_Witness ==
    \E i, j \in 1 .. Len(log) : \E k \in AcromionCalls :
        /\ i < k /\ k < j
        /\ log[i].op = "_find_top_of_head"
        /\ log[j].op = "_find_top_of_head"
        /\ log[i].ret.kind = "pixel"
        /\ log[j].ret = log[i].ret
        /\ MaskedOut(k, <<log[i].ret.pixel[2], log[i].ret.pixel[1]>>)

\* ------------------------------------- claims, the pit finder's two loops
\* the pixel <<row, column>> the anchor of get_maximum_pit lies in
AnchorPixel == <<start[2] \div CoordDen, start[1] \div CoordDen>>

\* C21: each of the two loops of get_maximum_pit exits after finitely many
\* angle steps, whatever the anchor and the raster: no loop is still running
\* when its angle has swept MaxSweep steps, a full turn, from the first ray.
C21_PitLoopsExit ==
    /\ pc = "left" => angle_radians_left[1] < MaxSweep * AngleStep
    /\ pc = "right" => angle_radians_right[1] > -(MaxSweep * AngleStep)

\* what the code does when every ray misses or the anchor lies on a boundary
\* pixel: every pass of the first loop finds a hit that is not nearer the
\* origin than the hit it keeps, and the loop goes on
C21_FirstLoopGoesOn ==
    [][ (PitRaiseAngle /\ (Boundary(edges) = {} \/ AnchorPixel \in Boundary(edges)))
            => /\ pc' = "left"
               /\ max_save_right' = max_save_right ]_vars

\* ========================================================= get_max_approx
\* the longest hit list and the largest width get_max_approx is called with
MaxHits == 3
MaxWidth == 4

\* hit lists of n points: the hits of one side on one row at columns
\* 0 .. MaxWidth, or at one of two points whose distances from (0, 0) are
\* sqrt(52) and 1.5 * sqrt(52); those of the other side at columns 0 and 1
TopLists(n) == [1 .. n -> { <<0, w>> : w \in 0 .. MaxWidth } \cup { <<4, 6>>, <<6, 9>> }]
BottomLists(n) == [1 .. n -> { <<0, 0>>, <<0, 1>> }]

InitApprox ==
    /\ edges \in RastersOf(<<1, 1>>, 0)
    /\ CallIdle
    /\ pc = "call"
    /\ RayIdle
    /\ PitIdle

\* index = get_max_approx(r_side, l_side) in utils/get_maximum.py
CallGetMaxApprox ==
    /\ pc = "call"
    /\ \E n \in 0 .. MaxHits, m \in 0 .. MaxHits :
         \E top_arr \in TopLists(n), bottom_arr \in BottomLists(m) :
            log' = Append(log, [op |-> "get_max_approx", top_arr |-> top_arr,
                                bottom_arr |-> bottom_arr,
                                ret |-> get_max_approx(top_arr, bottom_arr)])
    /\ pc' = "done"
    /\ UNCHANGED <<edges, rayVars, pitVars, start, end>>

\* index = get_max_approx(r_side, l_side) in YeadonModel._get_maximum_point
CallNestedGetMaxApprox ==
    /\ pc = "call"
    /\ \E n \in 0 .. MaxHits, m \in 0 .. MaxHits :
         \E top_arr \in TopLists(n), bottom_arr \in BottomLists(m) :
            log' = Append(log, [op |-> "nested_get_max_approx", top_arr |-> top_arr,
                                bottom_arr |-> bottom_arr,
                                ret |-> nested_get_max_approx(top_arr, bottom_arr)])
    /\ pc' = "done"
    /\ UNCHANGED <<edges, rayVars, pitVars, start, end>>

NextApprox == CallGetMaxApprox \/ CallNestedGetMaxApprox

SpecApprox == InitApprox /\ [][NextApprox]_vars

TypeApprox ==
    /\ Len(log) <= 1
    /\ \A i \in 1 .. Len(log) : log[i].ret.kind \in {"index", "none", "raise"}

\* ------------------------------------------------ claims, get_max_approx
\* the calls of the thresholded get_max_approx on two non-empty lists of
\* one length
ThresholdedCalls ==
    { c \in 1 .. Len(log) :
        /\ log[c].op = "get_max_approx"
        /\ Len(log[c].top_arr) = Len(log[c].bottom_arr)
        /\ Len(log[c].top_arr) > 0 }

\* the squared width of candidate i (from 1) of call c
WidthSq(c, i) ==
    LET d == <<log[c].top_arr[i][1] - log[c].bottom_arr[i][1],
               log[c].top_arr[i][2] - log[c].bottom_arr[i][2]>>
    IN  d[1] * d[1] + d[2] * d[2]

\* candidate i is wider than 1.5 times the first candidate
Rejected(c, i) == Exceeds(WidthSq(c, i), WidthSq(c, 1))

\* index k (from 0) is the smallest that attains the largest width among
\* the candidates of the set among
FirstWidest(c, k, among) ==
    /\ k + 1 \in among
    /\ \A i \in among : WidthSq(c, i) <= WidthSq(c, k + 1)
    /\ \A i \in among : WidthSq(c, i) = WidthSq(c, k + 1) => i >= k + 1

\* C22: on two non-empty hit lists of one length the thresholded
\* get_max_approx returns the smallest index that attains the largest width
\* among the candidates no wider than 1.5 times the first: a candidate that
\* comes after a rejected one is still considered.
C22_OnlyWideCandidatesRejected ==
    \A c \in ThresholdedCalls :
        /\ log[c].ret.kind = "index"
        /\ FirstWidest(c, log[c].ret.index,
                       { i \in 1 .. Len(log[c].top_arr) : ~Rejected(c, i) })

\* what the code does: the scan ends at the first rejected candidate, and
\* the index returned is the first widest of the candidates before it
C22_ScanEndsAtFirstRejected ==
    \A c \in ThresholdedCalls :
        /\ log[c].ret.kind = "index"
        /\ FirstWidest(c, log[c].ret.index,
                       { i \in 1 .. Len(log[c].top_arr) :
                            \A j \in 1 .. i : ~Rejected(c, j) })

\* ================================ the width calls of the measurement mapping
\* YeadonModel.__init__ works on four photographs, each with its raster and
\* its landmarks: front (edges, data, body_parts_pos), right side
\* (edges_r_side, data_r_side, body_parts_pos_r), left side (edges_l_side,
\* data_l_side, body_parts_pos_l) and front with the arms up (edges_up,
\* data_up, body_parts_pos_up).
RasterNames == {"edges", "edges_r_side", "edges_l_side", "edges_up"}

\* the photograph a raster or a landmark container of __init__ comes from
ViewOf ==
    [edges |-> "front", data |-> "front", body_parts_pos |-> "front",
     edges_r_side |-> "r_side", data_r_side |-> "r_side", body_parts_pos_r |-> "r_side",
     edges_l_side |-> "l_side", data_l_side |-> "l_side", body_parts_pos_l |-> "l_side",
     edges_up |-> "up", data_up |-> "up", body_parts_pos_up |-> "up"]

\* the calls of _get_maximum_line and _get_maximum_start in the dictionary
\* self.keypoints, in the order they are evaluated: the name of the entry,
\* the method, the container and key of the two landmarks (a row number in
\* data), and the raster
KeypointWidthCalls == <<
    [name |-> "Ls0p", op |-> "_get_maximum_line", first |-> <<"body_parts_pos", "right_hip">>,
     second |-> <<"body_parts_pos", "left_hip">>, raster |-> "edges"],
    [name |-> "Ls0p", op |-> "_get_maximum_start", first |-> <<"body_parts_pos_r", "right_hip">>,
     second |-> <<"body_parts_pos_r", "right_umbiculus">>, raster |-> "edges_r_side"],
    [name |-> "Ls1p", op |-> "_get_maximum_line", first |-> <<"body_parts_pos", "right_umbiculus">>,
     second |-> <<"body_parts_pos", "left_umbiculus">>, raster |-> "edges"],
    [name |-> "Ls1p", op |-> "_get_maximum_start", first |-> <<"body_parts_pos_r", "right_umbiculus">>,
     second |-> <<"body_parts_pos_r", "right_hip">>, raster |-> "edges_r_side"],
    [name |-> "Ls2p", op |-> "_get_maximum_line", first |-> <<"body_parts_pos", "right_lowest_front_rib">>,
     second |-> <<"body_parts_pos", "left_lowest_front_rib">>, raster |-> "edges"],
    [name |-> "Ls2p", op |-> "_get_maximum_start", first |-> <<"body_parts_pos_r", "right_lowest_front_rib">>,
     second |-> <<"body_parts_pos_r", "right_hip">>, raster |-> "edges_r_side"],
    [name |-> "Ls3p", op |-> "_get_maximum_line", first |-> <<"body_parts_pos", "right_nipple">>,
     second |-> <<"body_parts_pos", "left_nipple">>, raster |-> "edges"],
    [name |-> "Ls3p", op |-> "_get_maximum_start", first |-> <<"body_parts_pos_r", "right_nipple">>,
     second |-> <<"body_parts_pos_r", "right_hip">>, raster |-> "edges_r_side"],
    [name |-> "Ls6p", op |-> "_get_maximum_start", first |-> <<"body_parts_pos", "nose">>,
     second |-> <<"body_parts_pos", "top_of_head">>, raster |-> "edges"],
    [name |-> "Ls0w", op |-> "_get_maximum_line", first |-> <<"body_parts_pos", "left_hip">>,
     second |-> <<"body_parts_pos", "right_hip">>, raster |-> "edges"],
    [name |-> "Ls1w", op |-> "_get_maximum_line", first |-> <<"body_parts_pos", "left_umbiculus">>,
     second |-> <<"body_parts_pos", "right_umbiculus">>, raster |-> "edges"],
    [name |-> "Ls2w", op |-> "_get_maximum_line", first |-> <<"body_parts_pos", "left_lowest_front_rib">>,
     second |-> <<"body_parts_pos", "right_lowest_front_rib">>, raster |-> "edges"],
    [name |-> "Ls3w", op |-> "_get_maximum_line", first |-> <<"body_parts_pos", "left_nipple">>,
     second |-> <<"body_parts_pos", "right_nipple">>, raster |-> "edges"],
    [name |-> "La1p", op |-> "_get_maximum_start", first |-> <<"body_parts_pos", "left_mid_arm">>,
     second |-> <<"body_parts_pos", "left_elbow">>, raster |-> "edges"],
    [name |-> "La2p", op |-> "_get_maximum_start", first |-> <<"body_parts_pos", "left_elbow">>,
     second |-> <<"body_parts_pos", "left_mid_arm">>, raster |-> "edges"],
    [name |-> "La3p", op |-> "_get_maximum_start", first |-> <<"body_parts_pos", "left_maximum_forearm">>,
     second |-> <<"body_parts_pos", "left_elbow">>, raster |-> "edges"],
    [name |-> "La4p", op |-> "_get_maximum_start", first |-> <<"body_parts_pos", "left_wrist">>,
     second |-> <<"body_parts_pos", "left_elbow">>, raster |-> "edges"],
    [name |-> "La4p", op |-> "_get_maximum_start", first |-> <<"body_parts_pos_up", "left_wrist">>,
     second |-> <<"body_parts_pos_up", "left_elbow">>, raster |-> "edges_up"],
    [name |-> "La6p", op |-> "_get_maximum_start", first |-> <<"body_parts_pos", "left_knuckles">>,
     second |-> <<"body_parts_pos", "left_wrist">>, raster |-> "edges"],
    [name |-> "La6p", op |-> "_get_maximum_start", first |-> <<"data", 97>>,
     second |-> <<"body_parts_pos_up", "left_wrist">>, raster |-> "edges_up"],
    [name |-> "La7p", op |-> "_get_maximum_start", first |-> <<"body_parts_pos", "left_nails">>,
     second |-> <<"body_parts_pos", "left_wrist">>, raster |-> "edges"],
    [name |-> "La7p", op |-> "_get_maximum_start", first |-> <<"data", 98>>,
     second |-> <<"body_parts_pos_up", "left_wrist">>, raster |-> "edges_up"],
    [name |-> "La4w", op |-> "_get_maximum_start", first |-> <<"body_parts_pos", "left_wrist">>,
     second |-> <<"body_parts_pos", "left_elbow">>, raster |-> "edges"],
    [name |-> "La5w", op |-> "_get_maximum_start", first |-> <<"body_parts_pos", "left_base_of_thumb">>,
     second |-> <<"body_parts_pos", "left_wrist">>, raster |-> "edges"],
    [name |-> "La6w", op |-> "_get_maximum_start", first |-> <<"body_parts_pos", "left_knuckles">>,
     second |-> <<"body_parts_pos", "left_wrist">>, raster |-> "edges"],
    [name |-> "La7w", op |-> "_get_maximum_start", first |-> <<"body_parts_pos", "left_nails">>,
     second |-> <<"body_parts_pos", "left_wrist">>, raster |-> "edges"],
    [name |-> "Lb1p", op |-> "_get_maximum_start", first |-> <<"body_parts_pos", "right_mid_arm">>,
     second |-> <<"body_parts_pos", "right_elbow">>, raster |-> "edges"],
    [name |-> "Lb2p", op |-> "_get_maximum_start", first |-> <<"body_parts_pos", "right_elbow">>,
     second |-> <<"body_parts_pos", "right_mid_arm">>, raster |-> "edges"],
    [name |-> "Lb3p", op |-> "_get_maximum_start", first |-> <<"body_parts_pos", "right_maximum_forearm">>,
     second |-> <<"body_parts_pos", "right_elbow">>, raster |-> "edges"],
    [name |-> "Lb4p", op |-> "_get_maximum_start", first |-> <<"body_parts_pos", "right_wrist">>,
     second |-> <<"body_parts_pos", "right_elbow">>, raster |-> "edges"],
    [name |-> "Lb4p", op |-> "_get_maximum_start", first |-> <<"body_parts_pos_up", "right_wrist">>,
     second |-> <<"body_parts_pos_up", "right_elbow">>, raster |-> "edges_up"],
    [name |-> "Lb6p", op |-> "_get_maximum_start", first |-> <<"body_parts_pos", "right_knuckles">>,
     second |-> <<"body_parts_pos", "right_wrist">>, raster |-> "edges"],
    [name |-> "Lb6p", op |-> "_get_maximum_start", first |-> <<"data", 117>>,
     second |-> <<"body_parts_pos_up", "right_wrist">>, raster |-> "edges_up"],
    [name |-> "Lb7p", op |-> "_get_maximum_start", first |-> <<"body_parts_pos", "right_nails">>,
     second |-> <<"body_parts_pos", "right_wrist">>, raster |-> "edges"],
    [name |-> "Lb7p", op |-> "_get_maximum_start", first |-> <<"data", 119>>,
     second |-> <<"body_parts_pos_up", "right_wrist">>, raster |-> "edges_up"],
    [name |-> "Lb4w", op |-> "_get_maximum_start", first |-> <<"body_parts_pos", "right_wrist">>,
     second |-> <<"body_parts_pos", "right_elbow">>, raster |-> "edges"],
    [name |-> "Lb6w", op |-> "_get_maximum_start", first |-> <<"body_parts_pos", "right_knuckles">>,
     second |-> <<"body_parts_pos", "right_wrist">>, raster |-> "edges"],
    [name |-> "Lb7w", op |-> "_get_maximum_start", first |-> <<"body_parts_pos", "right_nails">>,
     second |-> <<"body_parts_pos", "right_wrist">>, raster |-> "edges"],
    [name |-> "Lj1p", op |-> "_get_maximum_start", first |-> <<"body_parts_pos", "left_crotch">>,
     second |-> <<"body_parts_pos", "left_knee">>, raster |-> "edges"],
    [name |-> "Lj2p", op |-> "_get_maximum_start", first |-> <<"body_parts_pos", "left_mid_thigh">>,
     second |-> <<"body_parts_pos", "left_knee">>, raster |-> "edges"],
    [name |-> "Lj3p", op |-> "_get_maximum_start", first |-> <<"body_parts_pos", "left_knee">>,
     second |-> <<"body_parts_pos", "left_hip">>, raster |-> "edges"],
    [name |-> "Lk1p", op |-> "_get_maximum_start", first |-> <<"body_parts_pos", "right_crotch">>,
     second |-> <<"body_parts_pos", "right_knee">>, raster |-> "edges"],
    [name |-> "Lk2p", op |-> "_get_maximum_start", first |-> <<"body_parts_pos", "right_mid_thigh">>,
     second |-> <<"body_parts_pos", "right_hip">>, raster |-> "edges"],
    [name |-> "Lk3p", op |-> "_get_maximum_start", first |-> <<"body_parts_pos", "right_knee">>,
     second |-> <<"body_parts_pos", "right_hip">>, raster |-> "edges"] >>

\* ------------------------------------------------------- the photographs
\* the four photographs have AssemblyRows x AssemblyCols pixels
AssemblyRows == 9
AssemblyCols == 9

\* the pixels on the border of a photograph
Frame ==
    { p \in PixelsOf(<<AssemblyRows, AssemblyCols>>) :
        p[1] \in {0, AssemblyRows - 1} \/ p[2] \in {0, AssemblyCols - 1} }

\* the edge raster whose boundary pixels are those of outline
Photograph(outline) ==
    [shape |-> <<AssemblyRows, AssemblyCols>>,
     px    |-> [p \in PixelsOf(<<AssemblyRows, AssemblyCols>>) |->
                   IF p \in outline THEN 255 ELSE 0]]

\* the outlines a photograph is taken with: the border and the pixels of
\* body, with or without those of extra, whole or with one pixel of gaps
\* missing
Outlines(body, extra, gaps) ==
    { ((Frame \cup body) \cup A) \ D :
        A \in SUBSET extra, D \in {{}} \cup { {p} : p \in gaps } }

\* the keypoint <<x, y>> at the centre of the pixel in column col and row row
At(col, row) == <<Centre(col), Centre(row)>>

\* data = predictions[0].data of the front photograph, the rows __init__
\* reads: a person standing with the arms down.  The shoulders (5, 6) stand
\* 200 / CoordDen pixel above the hips (11, 12) and in their columns, which
\* makes the divisions of lines 160-184 exact, as do the toe nails (17, 20)
\* half a pixel beside the heels (19, 22).
data ==
    (0 :> At(4, 1)) @@ (3 :> At(5, 1)) @@ (4 :> At(3, 1)) @@
    (5 :> <<Centre(6), Centre(3) - 200>>) @@ (6 :> <<Centre(2), Centre(3) - 200>>) @@
    (7 :> At(6, 4)) @@ (8 :> At(2, 4)) @@ (9 :> At(7, 5)) @@ (10 :> At(1, 5)) @@
    (11 :> At(6, 3)) @@ (12 :> At(2, 3)) @@ (13 :> At(6, 6)) @@ (14 :> At(2, 6)) @@
    (15 :> At(6, 7)) @@ (16 :> At(2, 7)) @@ (17 :> <<Centre(6) + 100, Centre(7)>>) @@
    (19 :> At(6, 7)) @@ (20 :> <<Centre(2) - 100, Centre(7)>>) @@ (22 :> At(2, 7)) @@
    (93 :> At(6, 6)) @@ (114 :> At(2, 6)) @@
    (96 :> At(7, 5)) @@ (100 :> At(7, 6)) @@ (104 :> At(7, 7)) @@
    (98 :> At(6, 7)) @@ (102 :> At(7, 7)) @@ (106 :> At(5, 7)) @@
    (117 :> At(1, 5)) @@ (121 :> At(1, 6)) @@ (125 :> At(1, 7)) @@
    (119 :> At(2, 7)) @@ (123 :> At(1, 7)) @@ (127 :> At(3, 7)) @@ (97 :> At(6, 5))

\* data_up = predictions_up[0].data: the same person with the arms up, the
\* elbows (7, 8) beside the shoulders and the wrists (9, 10) above them
data_up ==
    (7 :> At(6, 2)) @@ (8 :> At(2, 2)) @@ (9 :> At(7, 1)) @@ (10 :> At(1, 1)) @@ data

\* data_r_side = predictions_r_side[0].data: the right shoulder (6) above
\* the right hip (12)
data_r_side ==
    (6 :> <<Centre(4), Centre(3) - 200>>) @@ (12 :> At(4, 3)) @@ data

\* the rows of the landmarks taken from data and data_up as they are
body_parts_index ==
    [nose |-> 0, left_ear |-> 3, right_ear |-> 4, left_shoulder |-> 5,
     right_shoulder |-> 6, left_elbow |-> 7, right_elbow |-> 8, left_wrist |-> 9,
     right_wrist |-> 10, left_hip |-> 11, right_hip |-> 12, left_knee |-> 13,
     right_knee |-> 14, left_ankle |-> 15, right_ankle |-> 16,
     left_base_of_thumb |-> 93, right_base_of_thumb |-> 114, left_heel |-> 19,
     right_heel |-> 22, left_toe_nail |-> 17, right_toe_nail |-> 20]

\* the rows of the landmarks taken from data_r_side as they are
body_parts_index_r ==
    [nose |-> 0, right_ear |-> 4, right_shoulder |-> 6, right_elbow |-> 8,
     right_wrist |-> 10, right_hip |-> 12, right_knee |-> 14, right_ankle |-> 16,
     right_base_of_thumb |-> 114, right_heel |-> 22, right_toe_nail |-> 20]

\* {k: rows[v] for k, v in index.items()}
PartsOf(rows, index) == [k \in DOMAIN index |-> rows[index[k]]]

\* (a + b) / 2
Halfway(a, b) == <<(a[1] + b[1]) \div 2, (a[2] + b[2]) \div 2>>

\* np.mean([a, b, c], axis=0)
MeanOf(a, b, c) == <<(a[1] + b[1] + c[1]) \div 3, (a[2] + b[2] + c[2]) \div 3>>

\* ((rib * 3) + (hip * 2)) / 5
Umbiculus(rib, hip) ==
    <<(rib[1] * 3 + hip[1] * 2) \div 5, (rib[2] * 3 + hip[2] * 2) \div 5>>

\* the knuckles and the nails of the front photograph: the means of three
\* rows of hand_part_pos each
HandsOf(rows) ==
    [left_knuckles  |-> MeanOf(rows[96], rows[100], rows[104]),
     right_knuckles |-> MeanOf(rows[117], rows[121], rows[125]),
     left_nails     |-> MeanOf(rows[98], rows[102], rows[106]),
     right_nails    |-> MeanOf(rows[119], rows[123], rows[127])]

\* the knuckles and the nails of the photograph of the right side
RightHandOf(rows) ==
    [right_knuckles |-> HandsOf(rows).right_knuckles,
     right_nails    |-> HandsOf(rows).right_nails]

\* the arch and the ball of a foot, from its toe nail and heel
FootOf(toe_nail, heel) ==
    [arch |-> Halfway(toe_nail, heel),
     ball |-> Halfway(toe_nail, Halfway(toe_nail, heel))]

LeftFootOf(rows) ==
    [left_arch |-> FootOf(rows[17], rows[19]).arch,
     left_ball |-> FootOf(rows[17], rows[19]).ball]

RightFootOf(rows) ==
    [right_arch |-> FootOf(rows[20], rows[22]).arch,
     right_ball |-> FootOf(rows[20], rows[22]).ball]

\* the landmarks of one side of the trunk, from its shoulder, hip and elbow
TrunkOf(shoulder, hip, elbow) ==
    [lowest_front_rib |-> Halfway(shoulder, hip),
     nipple    |-> Halfway(Halfway(shoulder, hip), shoulder),
     umbiculus |-> Umbiculus(Halfway(shoulder, hip), hip),
     mid_arm   |-> Halfway(shoulder, elbow)]

LeftTrunkOf(rows) ==
    [left_lowest_front_rib |-> TrunkOf(rows[5], rows[11], rows[7]).lowest_front_rib,
     left_nipple    |-> TrunkOf(rows[5], rows[11], rows[7]).nipple,
     left_umbiculus |-> TrunkOf(rows[5], rows[11], rows[7]).umbiculus,
     left_mid_arm   |-> TrunkOf(rows[5], rows[11], rows[7]).mid_arm]

RightTrunkOf(rows) ==
    [right_lowest_front_rib |-> TrunkOf(rows[6], rows[12], rows[8]).lowest_front_rib,
     right_nipple    |-> TrunkOf(rows[6], rows[12], rows[8]).nipple,
     right_umbiculus |-> TrunkOf(rows[6], rows[12], rows[8]).umbiculus,
     right_mid_arm   |-> TrunkOf(rows[6], rows[12], rows[8]).mid_arm]

\* __init__ at line 185: the four rasters are in edges under their names in
\* __init__, the dictionaries hold the rows of data and the averages of
\* lines 160-184, and nothing has been looked for in a raster yet
InitAssembly ==
    /\ edges \in
         { [edges        |-> Photograph(front),
            edges_r_side |-> Photograph(side),
            edges_l_side |-> Photograph(Frame),
            edges_up     |-> Photograph(up)] :
             front \in Outlines({<<1, 2>>, <<1, 5>>, <<3, 4>>, <<4, 4>>},
                                {<<6, 4>>}, {<<1, 5>>, <<4, 4>>}),
             side  \in Outlines({}, {<<3, 2>>}, {<<3, AssemblyCols - 1>>}),
             up    \in Outlines({<<1, 2>>, <<1, 5>>, <<3, 4>>, <<4, 4>>},
                                {<<2, 7>>}, {<<1, 2>>}) }
    /\ CallIdle
    /\ pc = "left_acromion"
    /\ RayIdle
    /\ PitIdle

\* the statements of lines 185-193 are made on edges and data, then again,
\* at lines 220-228, on edges_up and data_up; log holds what they stored
ArmsUp == Len(log) >= Len(BatchNames)

\* the raster and the rows of the photograph being searched
SearchedRaster == IF ArmsUp THEN edges.edges_up ELSE edges.edges

SearchedRows == IF ArmsUp THEN data_up ELSE data

\* one statement: container[name] is stored when the call returns, and the
\* exception leaves __init__ when it raises
AssembleStep(name, ret, next) ==
    /\ log' = Append(log, [name |-> name,
                           container |-> IF ArmsUp THEN "body_parts_pos_up"
                                         ELSE "body_parts_pos",
                           ret |-> ret])
    /\ pc' = IF ret.kind = "raise" THEN "aborted" ELSE next
    /\ UNCHANGED <<edges, rayVars, pitVars, start, end>>

\* lines 185 and 220: ...["left_acromion"] = self._find_acromion_left(...)
AssembleLeftAcromion ==
    /\ pc = "left_acromion"
    /\ AssembleStep("left_acromion",
                    _find_acromion_left(SearchedRaster, SearchedRows).ret,
                    "right_acromion")

\* lines 186 and 221: ...["right_acromion"] = self._find_acromion_right(...)
AssembleRightAcromion ==
    /\ pc = "right_acromion"
    /\ AssembleStep("right_acromion",
                    _find_acromion_right(SearchedRaster, SearchedRows).ret,
                    "top_of_head")

\* lines 187 and 222: ...["top_of_head"] = self._find_top_of_head(...)
AssembleTopOfHead ==
    /\ pc = "top_of_head"
    /\ AssembleStep("top_of_head", _find_top_of_head(SearchedRaster),
                    "right_maximum_forearm")

\* lines 188 and 223: ...["right_maximum_forearm"] =
\*     self._get_maximum_point(data[10], data[8], edges)
AssembleRightForearm ==
    /\ pc = "right_maximum_forearm"
    /\ AssembleStep("right_maximum_forearm",
                    _get_maximum_point(SearchedRows[10], SearchedRows[8],
                                       SearchedRaster).ret,
                    "left_maximum_forearm")

\* lines 189 and 224: ...["left_maximum_forearm"] =
\*     self._get_maximum_point(data[9], data[7], edges)
AssembleLeftForearm ==
    /\ pc = "left_maximum_forearm"
    /\ AssembleStep("left_maximum_forearm",
                    _get_maximum_point(SearchedRows[9], SearchedRows[7],
                                       SearchedRaster).ret,
                    "right_maximum_calf")

\* lines 190 and 225: ...["right_maximum_calf"] =
\*     self._get_maximum_point(data[16], data[14], edges)
AssembleRightCalf ==
    /\ pc = "right_maximum_calf"
    /\ AssembleStep("right_maximum_calf",
                    _get_maximum_point(SearchedRows[16], SearchedRows[14],
                                       SearchedRaster).ret,
                    "left_maximum_calf")

\* lines 191 and 226: ...["left_maximum_calf"] =
\*     self._get_maximum_point(data[15], data[13], edges)
AssembleLeftCalf ==
    /\ pc = "left_maximum_calf"
    /\ AssembleStep("left_maximum_calf",
                    _get_maximum_point(SearchedRows[15], SearchedRows[13],
                                       SearchedRaster).ret,
                    "right_crotch")

\* lines 192 and 227: ...["right_crotch"], ...["left_crotch"] =
\*     self._get_crotch_right_left(edges, data)
AssembleCrotch ==
    /\ pc = "right_crotch"
    /\ AssembleStep("right_crotch",
                    _get_crotch_right_left(SearchedRaster, SearchedRows),
                    "right_mid_thigh")

\* lines 193-197 and 228-232: ...["right_mid_thigh"], ...["left_mid_thigh"] =
\*     self._get_mid_thigh_right_left(data, ...["right_crotch"], ...["left_crotch"])
\* after the front photograph comes the one with the arms up, after that the
\* dictionary self.keypoints
AssembleMidThigh ==
    /\ pc = "right_mid_thigh"
    /\ AssembleStep("right_mid_thigh",
                    _get_mid_thigh_right_left(SearchedRows, log[Len(log)].ret.right,
                                              log[Len(log)].ret.left),
                    IF ArmsUp THEN "keypoints" ELSE "left_acromion")

\* the landmarks stored by the nine statements whose results follow entry
\* base of log
StoredAfter(base) ==
    [left_acromion  |-> log[base + 1].ret.point,
     right_acromion |-> log[base + 2].ret.point,
     top_of_head    |-> <<log[base + 3].ret.pixel[1] * CoordDen,
                          log[base + 3].ret.pixel[2] * CoordDen>>,
     right_maximum_forearm |-> log[base + 4].ret.point,
     left_maximum_forearm  |-> log[base + 5].ret.point,
     right_maximum_calf    |-> log[base + 6].ret.point,
     left_maximum_calf     |-> log[base + 7].ret.point,
     right_crotch    |-> log[base + 8].ret.right,
     left_crotch     |-> log[base + 8].ret.left,
     right_mid_thigh |-> log[base + 9].ret.right,
     left_mid_thigh  |-> log[base + 9].ret.left]

\* the dictionaries of __init__ at line 267 that the width calls read;
\* body_parts_pos_l, of lines 156 and 250-265, is read by none
body_parts_pos ==
    PartsOf(data, body_parts_index) @@ HandsOf(data) @@ LeftTrunkOf(data)
        @@ RightTrunkOf(data) @@ LeftFootOf(data) @@ RightFootOf(data)
        @@ StoredAfter(0)

body_parts_pos_up ==
    PartsOf(data_up, body_parts_index) @@ LeftTrunkOf(data_up)
        @@ RightTrunkOf(data_up) @@ LeftFootOf(data_up) @@ RightFootOf(data_up)
        @@ StoredAfter(Len(BatchNames))

body_parts_pos_r ==
    PartsOf(data_r_side, body_parts_index_r) @@ RightHandOf(data_r_side)
        @@ RightTrunkOf(data_r_side) @@ RightFootOf(data_r_side)

\* container[key], for landmark == <<container, key>>
LandmarkAt(landmark) ==
    CASE landmark[1] = "data" -> data[landmark[2]]
      [] landmark[1] = "body_parts_pos" -> body_parts_pos[landmark[2]]
      [] landmark[1] = "body_parts_pos_up" -> body_parts_pos_up[landmark[2]]
      [] landmark[1] = "body_parts_pos_r" -> body_parts_pos_r[landmark[2]]

\* the entries log holds when the dictionary self.keypoints is begun
Stored == 2 * Len(BatchNames)

\* the width call that is evaluated next: log holds what the statements on
\* the two rasters stored and the width calls made
NextWidthCall == KeypointWidthCalls[Len(log) - Stored + 1]

\* one width call of the dictionary: log receives the call with its result;
\* an exception leaves __init__
AssembleWidth(first, second, ret) ==
    /\ start' = first
    /\ end' = second
    /\ log' = Append(log, [name |-> NextWidthCall.name, op |-> NextWidthCall.op,
                           first |-> NextWidthCall.first,
                           second |-> NextWidthCall.second,
                           raster |-> NextWidthCall.raster, ret |-> ret])
    /\ pc' = IF ret.kind = "raise" THEN "aborted" ELSE "keypoints"
    /\ UNCHANGED <<edges, rayVars, pitVars>>

\* self._get_maximum_line(first, second, raster)
AssembleGetMaximumLine ==
    /\ pc = "keypoints"
    /\ Len(log) - Stored < Len(KeypointWidthCalls)
    /\ NextWidthCall.op = "_get_maximum_line"
    /\ LET first  == LandmarkAt(NextWidthCall.first)
           second == LandmarkAt(NextWidthCall.second)
       IN  AssembleWidth(first, second,
                         get_maximum_line(first, second, edges[NextWidthCall.raster]).ret)

\* self._get_maximum_start(first, second, raster)
AssembleGetMaximumStart ==
    /\ pc = "keypoints"
    /\ Len(log) - Stored < Len(KeypointWidthCalls)
    /\ NextWidthCall.op = "_get_maximum_start"
    /\ LET first  == LandmarkAt(NextWidthCall.first)
           second == LandmarkAt(NextWidthCall.second)
       IN  AssembleWidth(first, second,
                         get_maximum_start(first, second, edges[NextWidthCall.raster]).ret)

\* print(self.keypoints): the mapping is complete
AssemblePrint ==
    /\ pc = "keypoints"
    /\ Len(log) - Stored = Len(KeypointWidthCalls)
    /\ pc' = "done"
    /\ UNCHANGED <<edges, rayVars, callVars, pitVars>>

NextAssembly ==
    \/ AssembleLeftAcromion
    \/ AssembleRightAcromion
    \/ AssembleTopOfHead
    \/ AssembleRightForearm
    \/ AssembleLeftForearm
    \/ AssembleRightCalf
    \/ AssembleLeftCalf
    \/ AssembleCrotch
    \/ AssembleMidThigh
    \/ AssembleGetMaximumLine
    \/ AssembleGetMaximumStart
    \/ AssemblePrint

SpecAssembly == InitAssembly /\ [][NextAssembly]_vars

\* the entries of log that are width calls
WidthCallsMade == { c \in 1 .. Len(log) : c > Stored }

\* the divisions of lines 161-184, 200-219 and 237-248 leave no remainder
\* on rows
ExactOn(rows) ==
    \A i \in 1 .. 2 :
        /\ (rows[5][i] - rows[11][i]) % 20 = 0
        /\ (rows[6][i] - rows[12][i]) % 20 = 0
        /\ (rows[5][i] + rows[7][i]) % 2 = 0
        /\ (rows[6][i] + rows[8][i]) % 2 = 0
        /\ (rows[96][i] + rows[100][i] + rows[104][i]) % 3 = 0
        /\ (rows[117][i] + rows[121][i] + rows[125][i]) % 3 = 0
        /\ (rows[98][i] + rows[102][i] + rows[106][i]) % 3 = 0
        /\ (rows[119][i] + rows[123][i] + rows[127][i]) % 3 = 0
        /\ (rows[17][i] - rows[19][i]) % 4 = 0
        /\ (rows[20][i] - rows[22][i]) % 4 = 0

\* the statements are made in their order and the first exception is the
\* last entry of log; the rays of a width call start off the pixel borders
TypeAssembly ==
    /\ pc \in {"keypoints", "aborted", "done"}
              \cup { BatchNames[i] : i \in 1 .. Len(BatchNames) }
    /\ Len(log) <= Stored + Len(KeypointWidthCalls)
    /\ \A c \in 1 .. Len(log) :
         /\ log[c].ret.kind \in {"point", "pixel", "points", "value", "raise"}
         /\ log[c].ret.kind = "value" <=> c > Stored /\ log[c].ret.kind # "raise"
         /\ log[c].ret.kind = "raise" => c = Len(log) /\ pc = "aborted"
         /\ c <= Stored => log[c].name = BatchNames[((c - 1) % Len(BatchNames)) + 1]
         /\ c > Stored => log[c].name = KeypointWidthCalls[c - Stored].name
    /\ pc = "done" => Len(log) = Stored + Len(KeypointWidthCalls)
    /\ pc = "keypoints" => Len(log) >= Stored
    /\ ExactOn(data) /\ ExactOn(data_up) /\ ExactOn(data_r_side)
    /\ Len(log) > Stored =>
         /\ start[1] % CoordDen # 0 /\ start[2] % CoordDen # 0
         /\ log[Len(log)].op = "_get_maximum_line" =>
                end[1] % CoordDen # 0 /\ end[2] % CoordDen # 0

\* ------------------------------------------ claims, the views of a width call
\* the photographs the two landmarks and the raster of width call c come from
ViewsOfCall(c) ==
    {ViewOf[log[c].first[1]], ViewOf[log[c].second[1]], ViewOf[log[c].raster]}

\* C23: in every width call made while the measurement mapping is assembled
\* the two landmarks and the raster come from one photograph: landmarks of one
\* view are never measured against the raster of another view.
C23_WidthCallsStayInOneView ==
    \A c \in WidthCallsMade : Cardinality(ViewsOfCall(c)) = 1

\* what the code does: the depth calls of La6p, La7p, Lb6p and Lb7p take
\* their first landmark from data, the front photograph, and the second
\* landmark and the raster from the photograph with the arms up; the rays
\* are cast in edges_up from the place the row has in data.  Every other
\* call stays in one photograph.
C23_HandDepthsMixFrontAndArmsUp ==
    \A c \in WidthCallsMade :
        IF log[c].name \in {"La6p", "La7p", "Lb6p", "Lb7p"} /\ log[c].raster = "edges_up"
        THEN /\ log[c].first[1] = "data"
             /\ log[c].second[1] = "body_parts_pos_up"
             /\ c = Len(log) =>
                  /\ start = data[log[c].first[2]]
                  /\ end = body_parts_pos_up[log[c].second[2]]
                  /\ log[c].ret = get_maximum_start(start, end, edges.edges_up).ret
        ELSE Cardinality(ViewsOfCall(c)) = 1
====
